---- MODULE Spec2Model ----
(***************************************************************************)
(* A model of the generic red-black tree of package rbtree (ol-se/rbtree). *)
(*                                                                         *)
(* Nodes live in one heap, a function from addresses to node records, so   *)
(* that node identity, the parent back-references and the cached Min/Max   *)
(* pointers are modelled as the pointers they are.  Every public method is *)
(* one action; the private helpers are operators over a "frame" record     *)
(* holding the heap and the fields of the receiver tree, threaded through  *)
(* the statements of the Go code in their order.                           *)
(***************************************************************************)
EXTENDS Integers, Sequences, FiniteSets, TLC

\* Values of an ordered tree (NewOrdered[int]) are 1..MaxVal.
MaxVal == 6
\* The largest treeSize of the benchmark, which inserts 0..treeSize-1 in
\* increasing order and then deletes them in the same order.
MaxBench == 14
\* Keys of the key/payload items of the ordered-map example.
MaxKey == 4
\* Values of the trees of a caller that keeps a tree and its clone.
MaxCloneVal == 4
\* The number of fields a test assigns to before it calls IsValid.
MaxEdits == 1
\* Two payloads tell the stored item from an argument with an equal key.
Payloads == {0, 1}

\* The nil pointer and the zero value of the value type.
Nil == 0
ZeroVal == 0

Max2(a, b) == IF a >= b THEN a ELSE b
\* The addresses of a heap for trees of at most n values and their clones,
\* and two nodes more that only a stale reference keeps alive.
Addresses(n) == 1..(n + 2)

VARIABLES
    heap,      \* address -> RBNode (address Nil maps to the zero node, never written)
    rbt,       \* the tree under test: [root, cmp, Min, Max, Count]
    cl,        \* the tree returned by the last Clone() (dropped by the next operation)
    op,        \* the last operation: its name, argument, results and the steps it took
    model,     \* the set of values inserted and not deleted, kept beside the tree
    panicked,  \* a nil pointer was dereferenced (the Go runtime panics)
    caller     \* the program that calls the tree

vars == <<heap, rbt, cl, op, model, panicked, caller>>

-----------------------------------------------------------------------------
(* Values and comparators *)

\* An orderedMapItem{key, val} is encoded as key * PayloadBase + val.
PayloadBase == Cardinality(Payloads)
Item(k, p) == k * PayloadBase + p
ItemKey(v) == v \div PayloadBase

\* cmp.Compare on integers.
Compare(a, b) == IF a < b THEN -1 ELSE IF a > b THEN 1 ELSE 0

\* compareKeys of the ordered-map example: only the keys are compared.
compareKeys(a, b) == Compare(ItemKey(a), ItemKey(b))

\* A call through the tree's cmp field.
Cmp(c, a, b) == IF c = "compareKeys" THEN compareKeys(a, b) ELSE Compare(a, b)

OrderedVals == 1..MaxVal
ItemVals == {Item(k, p) : k \in 1..MaxKey, p \in Payloads}

-----------------------------------------------------------------------------
(* Nodes, trees and frames *)

\* The zero RBNode.
ZeroNode == [Val |-> ZeroVal, left |-> Nil, right |-> Nil, parent |-> Nil, isBlack |-> FALSE]

\* New(cmp): an empty tree.
New(c) == [root |-> Nil, cmp |-> c, Min |-> Nil, Max |-> Nil, Count |-> 0]

\* NewOrdered(): New(cmp.Compare).
NewOrdered == New("Compare")

\* No tree at all (the clone variable before any Clone()).
NoTree == New("nil")

\* The frame of a method call on tree t over heap h; rot, dr, db and cases
\* record the rotations, resolver invocations and branches of the call, and
\* calls the private calls it made, in order, if trace asks for them.
Frame(h, t) ==
    [h |-> h, root |-> t.root, cmp |-> t.cmp, Min |-> t.Min, Max |-> t.Max,
     Count |-> t.Count, panic |-> FALSE, rot |-> 0, dr |-> 0, db |-> 0, cases |-> {},
     trace |-> FALSE, calls |-> <<>>]

\* The same frame, keeping track of the private calls.
Traced(h, t) == [Frame(h, t) EXCEPT !.trace = TRUE]

TreeOf(s) == [root |-> s.root, cmp |-> s.cmp, Min |-> s.Min, Max |-> s.Max, Count |-> s.Count]

\* A nil dereference: the call stops where it is.
Panic(s) == [s EXCEPT !.panic = TRUE]

\* n.f = x
Set(s, n, f, x) ==
    IF s.panic THEN s
    ELSE IF n = Nil THEN Panic(s)
    ELSE [s EXCEPT !.h[n][f] = x]

\* A statement that reads through the pointers ptrs.
Deref(s, ptrs, next) ==
    IF s.panic THEN s
    ELSE IF Nil \in ptrs THEN Panic(s)
    ELSE next

Case(s, name) == IF s.panic THEN s ELSE [s EXCEPT !.cases = @ \cup {name}]

\* The call (or return, or read) fn on node rbn, with the heap and the root
\* pointer as they are at that moment; flag is the local the call computed.
Called(s, fn, rbn, flag) ==
    IF s.panic \/ ~s.trace THEN s
    ELSE [s EXCEPT !.calls = Append(@, [fn |-> fn, rbn |-> rbn, h |-> s.h,
                                        root |-> s.root, flag |-> flag])]

\* isBlack(rbn): true if the node is black or nil.
isBlack(h, rbn) == rbn = Nil \/ h[rbn].isBlack

-----------------------------------------------------------------------------
(* rbtree_node.go *)

RECURSIVE leftmost(_, _)
leftmost(h, rbn) ==
    IF h[rbn].left # Nil THEN leftmost(h, h[rbn].left) ELSE rbn

RECURSIVE rightmost(_, _)
rightmost(h, rbn) ==
    IF h[rbn].right # Nil THEN rightmost(h, h[rbn].right) ELSE rbn

\* The loop of RBNode.Next: climb while the node is a right child.
RECURSIVE ClimbRight(_, _)
ClimbRight(h, rbn) ==
    IF h[rbn].parent # Nil /\ h[h[rbn].parent].right = rbn
    THEN ClimbRight(h, h[rbn].parent)
    ELSE rbn

\* The loop of RBNode.Prev: climb while the node is a left child.
RECURSIVE ClimbLeft(_, _)
ClimbLeft(h, rbn) ==
    IF h[rbn].parent # Nil /\ h[h[rbn].parent].left = rbn
    THEN ClimbLeft(h, h[rbn].parent)
    ELSE rbn

\* A faulty Next: the parent is returned without climbing past right turns.
RBNodeNext_NoClimb(h, rbn) ==
    IF h[rbn].right # Nil
    THEN [node |-> leftmost(h, h[rbn].right), ok |-> TRUE]
    ELSE [node |-> h[rbn].parent, ok |-> h[rbn].parent # Nil]

RBNodeNext(h, rbn) ==
    IF h[rbn].right # Nil
    THEN [node |-> leftmost(h, h[rbn].right), ok |-> TRUE]
    ELSE LET top == ClimbRight(h, rbn)
         IN [node |-> h[top].parent, ok |-> h[top].parent # Nil]

RBNodePrev(h, rbn) ==
    IF h[rbn].left # Nil
    THEN [node |-> rightmost(h, h[rbn].left), ok |-> TRUE]
    ELSE LET top == ClimbLeft(h, rbn)
         IN [node |-> h[top].parent, ok |-> h[top].parent # Nil]

\* A faulty find: the right branch descends into the left subtree.
RECURSIVE find_LeftTwice(_, _, _, _)
find_LeftTwice(h, c, rbn, val) ==
    LET result == Cmp(c, val, h[rbn].Val)
    IN IF result < 0
       THEN IF h[rbn].left = Nil THEN [node |-> Nil, ok |-> FALSE]
            ELSE find_LeftTwice(h, c, h[rbn].left, val)
       ELSE IF result > 0
       THEN IF h[rbn].left = Nil THEN [node |-> Nil, ok |-> FALSE]
            ELSE find_LeftTwice(h, c, h[rbn].left, val)
       ELSE [node |-> rbn, ok |-> TRUE]

RECURSIVE find(_, _, _, _)
find(h, c, rbn, val) ==
    LET result == Cmp(c, val, h[rbn].Val)
    IN IF result < 0
       THEN IF h[rbn].left = Nil THEN [node |-> Nil, ok |-> FALSE]
            ELSE find(h, c, h[rbn].left, val)
       ELSE IF result > 0
       THEN IF h[rbn].right = Nil THEN [node |-> Nil, ok |-> FALSE]
            ELSE find(h, c, h[rbn].right, val)
       ELSE [node |-> rbn, ok |-> TRUE]

\* &RBNode[T]{Val: val, parent: parent, isBlack: black} stored at address id.
NewNode(s, id, val, parent, black) ==
    [s EXCEPT !.h[id] = [Val |-> val, left |-> Nil, right |-> Nil,
                         parent |-> parent, isBlack |-> black]]

\* A faulty insert: a larger value is hung into the left slot of a node
\* that has no left child.
RECURSIVE insert_WrongSlot(_, _, _, _)
insert_WrongSlot(s, rbn, val, fresh) ==
    LET result == Cmp(s.cmp, val, s.h[rbn].Val)
    IN IF result < 0
       THEN IF s.h[rbn].left = Nil
            THEN [s |-> Set(NewNode(s, fresh, val, rbn, FALSE), rbn, "left", fresh),
                  node |-> fresh, ok |-> TRUE]
            ELSE insert_WrongSlot(s, s.h[rbn].left, val, fresh)
       ELSE IF result > 0
       THEN IF s.h[rbn].right = Nil
            THEN IF s.h[rbn].left = Nil
                 THEN [s |-> Set(NewNode(s, fresh, val, rbn, FALSE), rbn, "left", fresh),
                       node |-> fresh, ok |-> TRUE]
                 ELSE [s |-> Set(NewNode(s, fresh, val, rbn, FALSE), rbn, "right", fresh),
                       node |-> fresh, ok |-> TRUE]
            ELSE insert_WrongSlot(s, s.h[rbn].right, val, fresh)
       ELSE [s |-> s, node |-> rbn, ok |-> FALSE]

\* A faulty insert: an equal value replaces the stored one.
RECURSIVE insert_Overwrite(_, _, _, _)
insert_Overwrite(s, rbn, val, fresh) ==
    LET result == Cmp(s.cmp, val, s.h[rbn].Val)
    IN IF result < 0
       THEN IF s.h[rbn].left = Nil
            THEN [s |-> Set(NewNode(s, fresh, val, rbn, FALSE), rbn, "left", fresh),
                  node |-> fresh, ok |-> TRUE]
            ELSE insert_Overwrite(s, s.h[rbn].left, val, fresh)
       ELSE IF result > 0
       THEN IF s.h[rbn].right = Nil
            THEN [s |-> Set(NewNode(s, fresh, val, rbn, FALSE), rbn, "right", fresh),
                  node |-> fresh, ok |-> TRUE]
            ELSE insert_Overwrite(s, s.h[rbn].right, val, fresh)
       ELSE [s |-> Set(s, rbn, "Val", val), node |-> rbn, ok |-> FALSE]

\* insert: fresh is the address the allocator returns if a node is created.
RECURSIVE insert(_, _, _, _)
insert(s, rbn, val, fresh) ==
    LET result == Cmp(s.cmp, val, s.h[rbn].Val)
    IN IF result < 0
       THEN IF s.h[rbn].left = Nil
            THEN [s |-> Set(NewNode(s, fresh, val, rbn, FALSE), rbn, "left", fresh),
                  node |-> fresh, ok |-> TRUE]
            ELSE insert(s, s.h[rbn].left, val, fresh)
       ELSE IF result > 0
       THEN IF s.h[rbn].right = Nil
            THEN [s |-> Set(NewNode(s, fresh, val, rbn, FALSE), rbn, "right", fresh),
                  node |-> fresh, ok |-> TRUE]
            ELSE insert(s, s.h[rbn].right, val, fresh)
       ELSE [s |-> s, node |-> rbn, ok |-> FALSE]

\* A faulty clone: the left child is taken over, not copied.
RECURSIVE clone_SharesLeft(_, _, _)
clone_SharesLeft(s, rbn, free) ==
    LET newNode == Head(free)
        attach(r, f) ==
            [s    |-> IF r.node # Nil
                      THEN Set(Set(r.s, newNode, f, r.node), r.node, "parent", newNode)
                      ELSE r.s,
             free |-> r.free]
        down(x, child, fr) ==
            IF child # Nil THEN clone_SharesLeft(x, child, fr)
            ELSE [s |-> x, node |-> Nil, free |-> fr]
        shareLeft(x) ==
            attach([s |-> x, node |-> x.h[rbn].left, free |-> Tail(free)], "left")
        cloneRight(l) == attach(down(l.s, l.s.h[rbn].right, l.free), "right")
        done(r)  == [s |-> r.s, node |-> newNode, free |-> r.free]
    IN done(cloneRight(shareLeft(NewNode(s, newNode, s.h[rbn].Val, Nil, s.h[rbn].isBlack))))

\* clone: free is the sequence of addresses the allocator hands out next.
RECURSIVE clone(_, _, _)
clone(s, rbn, free) ==
    LET newNode == Head(free)
        \* newNode.f = child; newNode.f.parent = newNode
        attach(r, f) ==
            [s    |-> IF r.node # Nil
                      THEN Set(Set(r.s, newNode, f, r.node), r.node, "parent", newNode)
                      ELSE r.s,
             free |-> r.free]
        down(x, child, fr) ==
            IF child # Nil THEN clone(x, child, fr)
            ELSE [s |-> x, node |-> Nil, free |-> fr]
        cloneLeft(x)  == attach(down(x, x.h[rbn].left, Tail(free)), "left")
        cloneRight(l) == attach(down(l.s, l.s.h[rbn].right, l.free), "right")
        done(r)  == [s |-> r.s, node |-> newNode, free |-> r.free]
    IN done(cloneRight(cloneLeft(NewNode(s, newNode, s.h[rbn].Val, Nil, s.h[rbn].isBlack))))

\* The result of the node validators: the black height, the verdict, the
\* value left in *initialBlackHeight, and whether a nil pointer was
\* dereferenced on the way (the call then never returns).
Invalid(init) == [bh |-> 0, ok |-> FALSE, init |-> init, panic |-> FALSE]

Checked(bh, init) == [bh |-> bh, ok |-> TRUE, init |-> init, panic |-> FALSE]

NilDereference(init) == [bh |-> 0, ok |-> FALSE, init |-> init, panic |-> TRUE]

RECURSIVE isValid(_, _, _, _, _)

leftSubtreeIsValid(h, c, rbn, init, cur) ==
    IF h[rbn].left = Nil
    THEN Checked(cur, init)
    ELSE IF h[h[rbn].left].parent # rbn \/ Cmp(c, h[rbn].Val, h[h[rbn].left].Val) <= 0
    THEN Invalid(init)
    ELSE isValid(h, c, h[rbn].left, init, cur)

rightSubtreeIsValid(h, c, rbn, init, cur) ==
    IF h[rbn].right = Nil
    THEN Checked(cur, init)
    ELSE IF h[h[rbn].right].parent # rbn \/ Cmp(c, h[rbn].Val, h[h[rbn].right].Val) >= 0
    THEN Invalid(init)
    ELSE isValid(h, c, h[rbn].right, init, cur)

isValid(h, c, rbn, init, cur0) ==
    LET cur  == IF h[rbn].isBlack THEN cur0 + 1 ELSE cur0
        leaf == h[rbn].left = Nil /\ h[rbn].right = Nil
        thenBoth(l, r) ==
            IF r.panic THEN r
            ELSE IF ~r.ok \/ l.bh # r.bh
            THEN Invalid(r.init)
            ELSE Checked(Max2(l.bh, cur), r.init)
        thenRight(l) ==
            IF l.panic THEN l
            ELSE IF ~l.ok
            THEN Invalid(l.init)
            ELSE thenBoth(l, rightSubtreeIsValid(h, c, rbn, l.init, cur))
    IN IF ~h[rbn].isBlack /\ h[rbn].parent = Nil
       THEN NilDereference(init)
       ELSE IF ~h[rbn].isBlack /\ ~h[h[rbn].parent].isBlack
       THEN Invalid(init)
       ELSE IF leaf /\ init = 0
       THEN Checked(cur, cur)
       ELSE IF leaf /\ init # cur
       THEN Invalid(init)
       ELSE thenRight(leftSubtreeIsValid(h, c, rbn, init, cur))

\* A faulty equalTo: the colours of the two nodes are not compared.
RECURSIVE equalTo_IgnoresColour(_, _, _, _)
equalTo_IgnoresColour(h, c, rbn, anotherRBN) ==
    IF anotherRBN = Nil THEN FALSE
    ELSE IF Cmp(c, h[rbn].Val, h[anotherRBN].Val) # 0
    THEN FALSE
    ELSE IF h[rbn].left # Nil /\ ~equalTo_IgnoresColour(h, c, h[rbn].left, h[anotherRBN].left)
    THEN FALSE
    ELSE IF h[rbn].left = Nil /\ h[anotherRBN].left # Nil
    THEN FALSE
    ELSE IF h[rbn].right # Nil /\ ~equalTo_IgnoresColour(h, c, h[rbn].right, h[anotherRBN].right)
    THEN FALSE
    ELSE IF h[rbn].right = Nil /\ h[anotherRBN].right # Nil
    THEN FALSE
    ELSE TRUE

RECURSIVE equalTo(_, _, _, _)
equalTo(h, c, rbn, anotherRBN) ==
    IF anotherRBN = Nil THEN FALSE
    ELSE IF Cmp(c, h[rbn].Val, h[anotherRBN].Val) # 0 \/ h[rbn].isBlack # h[anotherRBN].isBlack
    THEN FALSE
    ELSE IF h[rbn].left # Nil /\ ~equalTo(h, c, h[rbn].left, h[anotherRBN].left)
    THEN FALSE
    ELSE IF h[rbn].left = Nil /\ h[anotherRBN].left # Nil
    THEN FALSE
    ELSE IF h[rbn].right # Nil /\ ~equalTo(h, c, h[rbn].right, h[anotherRBN].right)
    THEN FALSE
    ELSE IF h[rbn].right = Nil /\ h[anotherRBN].right # Nil
    THEN FALSE
    ELSE TRUE

\* fmt's rendering of a non-negative int: its decimal digits.
Digit == <<"0", "1", "2", "3", "4", "5", "6", "7", "8", "9">>

RECURSIVE Decimal(_)
Decimal(n) ==
    IF n < 10 THEN Digit[n + 1] ELSE Decimal(n \div 10) \o Digit[(n % 10) + 1]

\* strings.Repeat(str, count)
RECURSIVE Repeat(_, _)
Repeat(str, count) == IF count = 0 THEN "" ELSE str \o Repeat(str, count - 1)

\* fmt.Sprintln(indent, val): the operands separated by a space, then a
\* newline.
Sprintln(indent, val) == indent \o " " \o Decimal(val) \o "\n"

\* A faulty recString: the left subtree is written first.
RECURSIVE recString_LeftFirst(_, _, _, _)
recString_LeftFirst(h, rbn, result, counter) ==
    LET first(res) ==
            IF h[rbn].left # Nil THEN recString_LeftFirst(h, h[rbn].left, res, counter + 1)
            ELSE res
        line(res) == res \o Sprintln(Repeat(" ", counter), h[rbn].Val)
        last(res) ==
            IF h[rbn].right # Nil THEN recString_LeftFirst(h, h[rbn].right, res, counter + 1)
            ELSE res
    IN last(line(first(result)))

\* recString: the text *result after the call.
RECURSIVE recString(_, _, _, _)
recString(h, rbn, result, counter) ==
    LET first(res) ==
            IF h[rbn].right # Nil THEN recString(h, h[rbn].right, res, counter + 1)
            ELSE res
        line(res) == res \o Sprintln(Repeat(" ", counter), h[rbn].Val)
        last(res) ==
            IF h[rbn].left # Nil THEN recString(h, h[rbn].left, res, counter + 1)
            ELSE res
    IN last(line(first(result)))

-----------------------------------------------------------------------------
(* rbtree.go: rotations and the two resolvers.  Each statement of a method
   is a step from frame to frame; the method is their composition. *)

\* A completed rotation is counted.
Rotated(x) == IF x.panic THEN x ELSE [x EXCEPT !.rot = @ + 1]

\* if rbn.parent.parent != nil { update topnode parent child }
TopNode(x, rbn) ==
    LET top == x.h[rbn].parent
        pp  == x.h[top].parent
    IN IF pp # Nil
       THEN IF x.h[pp].left = rbn
            THEN Set(x, pp, "left", top)
            ELSE Set(x, pp, "right", top)
       ELSE x

\* A faulty rotateRight: the subtree handed over to rbn keeps its old parent.
rotateRight_KeepsInnerParent(s, rbn) ==
    LET st0(x) == IF x.root = rbn THEN [x EXCEPT !.root = x.h[rbn].left] ELSE x
        st1(x) == Set(x, x.h[rbn].left, "parent", x.h[rbn].parent)
        st2(x) == Set(x, rbn, "parent", x.h[rbn].left)
        st3(x) == Set(x, rbn, "left", x.h[x.h[rbn].parent].right)
        st5(x) == Set(x, x.h[rbn].parent, "right", rbn)
    IN Deref(s, {rbn},
         Called(Rotated(TopNode(st5(st3(st2(st1(st0(
                  Called(s, "rotateRight", rbn, FALSE)))))), rbn)),
                "rotateRight.return", rbn, FALSE))

rotateRight(s, rbn) ==
    LET st0(x) == IF x.root = rbn THEN [x EXCEPT !.root = x.h[rbn].left] ELSE x
        st1(x) == Set(x, x.h[rbn].left, "parent", x.h[rbn].parent)
        st2(x) == Set(x, rbn, "parent", x.h[rbn].left)
        st3(x) == Set(x, rbn, "left", x.h[x.h[rbn].parent].right)
        st4(x) == IF x.h[rbn].left # Nil THEN Set(x, x.h[rbn].left, "parent", rbn) ELSE x
        st5(x) == Set(x, x.h[rbn].parent, "right", rbn)
    IN Deref(s, {rbn},
         Called(Rotated(TopNode(st5(st4(st3(st2(st1(st0(
                  Called(s, "rotateRight", rbn, FALSE))))))), rbn)),
                "rotateRight.return", rbn, FALSE))

\* A faulty rotateLeft: the root pointer of the tree is left alone.
rotateLeft_KeepRoot(s, rbn) ==
    LET st1(x) == Set(x, x.h[rbn].right, "parent", x.h[rbn].parent)
        st2(x) == Set(x, rbn, "parent", x.h[rbn].right)
        st3(x) == Set(x, rbn, "right", x.h[x.h[rbn].parent].left)
        st4(x) == IF x.h[rbn].right # Nil THEN Set(x, x.h[rbn].right, "parent", rbn) ELSE x
        st5(x) == Set(x, x.h[rbn].parent, "left", rbn)
    IN Deref(s, {rbn}, Rotated(TopNode(st5(st4(st3(st2(st1(s))))), rbn)))

rotateLeft(s, rbn) ==
    LET st0(x) == IF x.root = rbn THEN [x EXCEPT !.root = x.h[rbn].right] ELSE x
        st1(x) == Set(x, x.h[rbn].right, "parent", x.h[rbn].parent)
        st2(x) == Set(x, rbn, "parent", x.h[rbn].right)
        st3(x) == Set(x, rbn, "right", x.h[x.h[rbn].parent].left)
        st4(x) == IF x.h[rbn].right # Nil THEN Set(x, x.h[rbn].right, "parent", rbn) ELSE x
        st5(x) == Set(x, x.h[rbn].parent, "left", rbn)
    IN Deref(s, {rbn},
         Called(Rotated(TopNode(st5(st4(st3(st2(st1(st0(
                  Called(s, "rotateLeft", rbn, FALSE))))))), rbn)),
                "rotateLeft.return", rbn, FALSE))

\* rbn.parent.isBlack = false; rbn.isBlack = true
Recolour(x, rbn) == Set(Set(x, x.h[rbn].parent, "isBlack", FALSE), rbn, "isBlack", TRUE)

\* A faulty solveDoubleRed: a red uncle is recoloured, a black uncle is left
\* without the rotations.
RECURSIVE solveDoubleRed_NoRotation(_, _)
solveDoubleRed_NoRotation(s0, rbn) ==
    LET g == s0.h[rbn].parent
        up(x) ==
            IF ~x.h[x.h[g].parent].isBlack
            THEN solveDoubleRed_NoRotation(Case(x, "dr_recurse"), x.h[g].parent)
            ELSE x
        grand(x) ==
            IF x.h[g].parent # Nil THEN up(Set(x, g, "isBlack", FALSE)) ELSE x
        uncle(x) ==
            grand(Case(Set(Set(x, x.h[g].left, "isBlack", TRUE),
                           x.h[g].right, "isBlack", TRUE), "dr_red_uncle"))
        switch(x) ==
            IF isBlack(x.h, x.h[g].left) \/ isBlack(x.h, x.h[g].right) THEN x
            ELSE uncle(x)
        enter(x) == Deref(x, {rbn, g}, switch(x))
    IN enter([s0 EXCEPT !.dr = @ + 1])

\* A faulty solveDoubleRed: under a red uncle the resolver goes on at the
\* grandparent, not at its parent.
RECURSIVE solveDoubleRed_OneLevelUp(_, _)
solveDoubleRed_OneLevelUp(s0, rbn) ==
    LET g == s0.h[rbn].parent
        \* the node rbn names after "rbn = rbn.parent" of a triangle
        line(x, tri) == IF tri THEN x.h[rbn].parent ELSE rbn
        \* sibling is left and black
        leftLine(x, n) == rotateLeft(Case(Recolour(x, n), "dr_left_black"), x.h[n].parent)
        leftLine2(x, tri) == leftLine(x, line(x, tri))
        leftTri(x, tri) ==
            leftLine2(IF tri THEN rotateRight(Case(x, "dr_triangle"), rbn) ELSE x, tri)
        \* sibling is right and black
        rightLine(x, n) == rotateRight(Case(Recolour(x, n), "dr_right_black"), x.h[n].parent)
        rightLine2(x, tri) == rightLine(x, line(x, tri))
        rightTri(x, tri) ==
            rightLine2(IF tri THEN rotateLeft(Case(x, "dr_triangle"), rbn) ELSE x, tri)
        \* sibling is red
        up(x) ==
            IF ~x.h[x.h[g].parent].isBlack
            THEN solveDoubleRed_OneLevelUp(Case(x, "dr_recurse"), g)
            ELSE x
        grand(x) ==
            IF x.h[g].parent # Nil THEN up(Set(x, g, "isBlack", FALSE)) ELSE x
        uncle(x) ==
            grand(Case(Set(Set(x, x.h[g].left, "isBlack", TRUE),
                           x.h[g].right, "isBlack", TRUE), "dr_red_uncle"))
        switch(x) ==
            IF isBlack(x.h, x.h[g].left) THEN leftTri(x, ~isBlack(x.h, x.h[rbn].left))
            ELSE IF isBlack(x.h, x.h[g].right) THEN rightTri(x, ~isBlack(x.h, x.h[rbn].right))
            ELSE uncle(x)
        enter(x) == Deref(x, {rbn, g}, switch(x))
    IN enter(Called([s0 EXCEPT !.dr = @ + 1], "solveDoubleRed", rbn, FALSE))

\* solveDoubleRed: rbn is a red node with a red child.
RECURSIVE solveDoubleRed(_, _)
solveDoubleRed(s0, rbn) ==
    LET g == s0.h[rbn].parent
        \* the node rbn names after "rbn = rbn.parent" of a triangle
        line(x, tri) == IF tri THEN x.h[rbn].parent ELSE rbn
        \* sibling is left and black
        leftLine(x, n) == rotateLeft(Case(Recolour(x, n), "dr_left_black"), x.h[n].parent)
        leftLine2(x, tri) == leftLine(x, line(x, tri))
        leftTri(x, tri) ==
            leftLine2(IF tri THEN rotateRight(Case(x, "dr_triangle"), rbn) ELSE x, tri)
        \* sibling is right and black
        rightLine(x, n) == rotateRight(Case(Recolour(x, n), "dr_right_black"), x.h[n].parent)
        rightLine2(x, tri) == rightLine(x, line(x, tri))
        rightTri(x, tri) ==
            rightLine2(IF tri THEN rotateLeft(Case(x, "dr_triangle"), rbn) ELSE x, tri)
        \* sibling is red
        up(x) ==
            IF ~x.h[x.h[g].parent].isBlack
            THEN solveDoubleRed(Case(x, "dr_recurse"), x.h[g].parent)
            ELSE x
        grand(x) ==
            IF x.h[g].parent # Nil THEN up(Set(x, g, "isBlack", FALSE)) ELSE x
        uncle(x) ==
            grand(Case(Set(Set(x, x.h[g].left, "isBlack", TRUE),
                           x.h[g].right, "isBlack", TRUE), "dr_red_uncle"))
        switch(x) ==
            IF isBlack(x.h, x.h[g].left) THEN leftTri(x, ~isBlack(x.h, x.h[rbn].left))
            ELSE IF isBlack(x.h, x.h[g].right) THEN rightTri(x, ~isBlack(x.h, x.h[rbn].right))
            ELSE uncle(x)
        enter(x) == Deref(x, {rbn, g}, switch(x))
    IN enter(Called([s0 EXCEPT !.dr = @ + 1], "solveDoubleRed", rbn, FALSE))

\* doubleBlackBlackSiblingRedChild: the black sibling has a red child.
doubleBlackBlackSiblingRedChild(s, parent, sibling, siblingIsRight) ==
    LET rightIsBlack0 == isBlack(s.h, s.h[sibling].right)
        leftIsBlack0  == isBlack(s.h, s.h[sibling].left)
        \* the far child is red, or made red by the triangle step
        line(x, sib, rightIsBlack, leftIsBlack) ==
            IF siblingIsRight /\ ~rightIsBlack
            THEN rotateLeft(Set(Case(x, "db_line"), x.h[sib].right, "isBlack", TRUE), parent)
            ELSE IF ~siblingIsRight /\ ~leftIsBlack
            THEN rotateRight(Set(Case(x, "db_line"), x.h[sib].left, "isBlack", TRUE), parent)
            ELSE x
        \* sibling.isBlack = parent.isBlack; parent.isBlack = true
        colours(x, sib, rightIsBlack, leftIsBlack) ==
            Deref(x, {sib},
              line(Set(Set(x, sib, "isBlack", x.h[parent].isBlack), parent, "isBlack", TRUE),
                   sib, rightIsBlack, leftIsBlack))
        \* sibling = parent.right (or left); the colours are read again
        reread(x, sib) ==
            colours(Called(x, "sibling", sib, siblingIsRight), sib,
                    isBlack(x.h, x.h[sib].right), isBlack(x.h, x.h[sib].left))
        moved(x) ==
            reread(x, IF siblingIsRight THEN x.h[parent].right ELSE x.h[parent].left)
        triangle(x) ==
            IF siblingIsRight
            THEN rotateRight(Set(Set(x, sibling, "isBlack", FALSE),
                                 x.h[sibling].left, "isBlack", TRUE), sibling)
            ELSE rotateLeft(Set(Set(x, sibling, "isBlack", FALSE),
                                x.h[sibling].right, "isBlack", TRUE), sibling)
    IN Deref(s, {parent, sibling},
         IF rightIsBlack0 = siblingIsRight /\ leftIsBlack0 # siblingIsRight
         THEN moved(triangle(Case(s, "db_triangle")))
         ELSE colours(s, sibling, rightIsBlack0, leftIsBlack0))

\* A faulty choice of side: the deficient node is looked for in the left
\* slot of parent only, as if it were still attached.
SiblingIsRight_BySlot(h, parent, rbn) == h[parent].left = rbn

\* parent.left == rbn || (parent.right != nil && parent.right != rbn)
SiblingIsRight(h, parent, rbn) ==
    \/ h[parent].left = rbn
    \/ (h[parent].right # Nil /\ h[parent].right # rbn)

\* A faulty solveDoubleBlack: under a red sibling the parent keeps its colour.
RECURSIVE solveDoubleBlack_KeepsParentBlack(_, _)
solveDoubleBlack_KeepsParentBlack(s0, rbn) ==
    LET parent == s0.h[rbn].parent
        siblingIsRight == SiblingIsRight(s0.h, parent, rbn)
        \* black sibling with black children
        blackChildren(x) ==
            IF x.h[parent].isBlack
            THEN solveDoubleBlack_KeepsParentBlack(Case(x, "db_recurse"), parent)
            ELSE Set(Case(x, "db_red_parent"), parent, "isBlack", TRUE)
        read(x, sibling) ==
            Deref(x, {sibling},
              IF /\ x.h[sibling].isBlack
                 /\ isBlack(x.h, x.h[sibling].left)
                 /\ isBlack(x.h, x.h[sibling].right)
              THEN blackChildren(Set(x, sibling, "isBlack", FALSE))
              ELSE doubleBlackBlackSiblingRedChild(x, parent, sibling, siblingIsRight))
        blackSibling(x, sibling) == read(Called(x, "sibling", sibling, siblingIsRight), sibling)
        \* sibling = parent.right (or left) after the rotation
        moved(x) ==
            blackSibling(x, IF siblingIsRight THEN x.h[parent].right ELSE x.h[parent].left)
        recoloured(x) ==
            moved(IF siblingIsRight THEN rotateLeft(x, parent) ELSE rotateRight(x, parent))
        redSibling(x, sibling) ==
            recoloured(Set(Case(x, "db_red_sibling"), sibling, "isBlack", TRUE))
        choose(x, sibling) ==
            IF sibling # Nil /\ ~x.h[sibling].isBlack
            THEN redSibling(x, sibling)
            ELSE blackSibling(x, sibling)
        enter(x) ==
            IF x.root = rbn THEN Case(x, "db_root")
            ELSE Deref(x, {rbn, parent},
                   choose(x, IF siblingIsRight THEN x.h[parent].right ELSE x.h[parent].left))
    IN IF s0.panic THEN s0
       ELSE enter(Called([s0 EXCEPT !.db = @ + 1], "solveDoubleBlack", rbn, siblingIsRight))

\* A faulty solveDoubleBlack: under a black sibling with black children the
\* resolver goes on at parent whatever the colour of parent.
RECURSIVE solveDoubleBlack_AlwaysUp(_, _)
solveDoubleBlack_AlwaysUp(s0, rbn) ==
    LET parent == s0.h[rbn].parent
        siblingIsRight == SiblingIsRight(s0.h, parent, rbn)
        \* black sibling with black children
        blackChildren(x) ==
            solveDoubleBlack_AlwaysUp(Case(x, "db_recurse"), parent)
        read(x, sibling) ==
            Deref(x, {sibling},
              IF /\ x.h[sibling].isBlack
                 /\ isBlack(x.h, x.h[sibling].left)
                 /\ isBlack(x.h, x.h[sibling].right)
              THEN blackChildren(Set(x, sibling, "isBlack", FALSE))
              ELSE doubleBlackBlackSiblingRedChild(x, parent, sibling, siblingIsRight))
        blackSibling(x, sibling) == read(Called(x, "sibling", sibling, siblingIsRight), sibling)
        \* sibling = parent.right (or left) after the rotation
        moved(x) ==
            blackSibling(x, IF siblingIsRight THEN x.h[parent].right ELSE x.h[parent].left)
        recoloured(x) ==
            moved(IF siblingIsRight THEN rotateLeft(x, parent) ELSE rotateRight(x, parent))
        redSibling(x, sibling) ==
            recoloured(Set(Set(Case(x, "db_red_sibling"), parent, "isBlack", FALSE),
                           sibling, "isBlack", TRUE))
        choose(x, sibling) ==
            IF sibling # Nil /\ ~x.h[sibling].isBlack
            THEN redSibling(x, sibling)
            ELSE blackSibling(x, sibling)
        enter(x) ==
            IF x.root = rbn THEN Case(x, "db_root")
            ELSE Deref(x, {rbn, parent},
                   choose(x, IF siblingIsRight THEN x.h[parent].right ELSE x.h[parent].left))
    IN IF s0.panic THEN s0
       ELSE enter(Called([s0 EXCEPT !.db = @ + 1], "solveDoubleBlack", rbn, siblingIsRight))

\* solveDoubleBlack: rbn is the black node whose slot lost a black node.
RECURSIVE solveDoubleBlack(_, _)
solveDoubleBlack(s0, rbn) ==
    LET parent == s0.h[rbn].parent
        siblingIsRight == SiblingIsRight(s0.h, parent, rbn)
        \* black sibling with black children
        blackChildren(x) ==
            IF x.h[parent].isBlack
            THEN solveDoubleBlack(Case(x, "db_recurse"), parent)
            ELSE Set(Case(x, "db_red_parent"), parent, "isBlack", TRUE)
        read(x, sibling) ==
            Deref(x, {sibling},
              IF /\ x.h[sibling].isBlack
                 /\ isBlack(x.h, x.h[sibling].left)
                 /\ isBlack(x.h, x.h[sibling].right)
              THEN blackChildren(Set(x, sibling, "isBlack", FALSE))
              ELSE doubleBlackBlackSiblingRedChild(x, parent, sibling, siblingIsRight))
        blackSibling(x, sibling) == read(Called(x, "sibling", sibling, siblingIsRight), sibling)
        \* sibling = parent.right (or left) after the rotation
        moved(x) ==
            blackSibling(x, IF siblingIsRight THEN x.h[parent].right ELSE x.h[parent].left)
        recoloured(x) ==
            moved(IF siblingIsRight THEN rotateLeft(x, parent) ELSE rotateRight(x, parent))
        redSibling(x, sibling) ==
            recoloured(Set(Set(Case(x, "db_red_sibling"), parent, "isBlack", FALSE),
                           sibling, "isBlack", TRUE))
        choose(x, sibling) ==
            IF sibling # Nil /\ ~x.h[sibling].isBlack
            THEN redSibling(x, sibling)
            ELSE blackSibling(x, sibling)
        enter(x) ==
            IF x.root = rbn THEN Case(x, "db_root")
            ELSE Deref(x, {rbn, parent},
                   choose(x, IF siblingIsRight THEN x.h[parent].right ELSE x.h[parent].left))
    IN IF s0.panic THEN s0
       ELSE enter(Called([s0 EXCEPT !.db = @ + 1], "solveDoubleBlack", rbn, siblingIsRight))

\* A faulty deleteNoChildren: the leaf is unlinked and nothing is repaired.
deleteNoChildren_NoRepair(s, rbn) ==
    LET parent == s.h[rbn].parent
    IN Deref(s, {rbn, parent},
         IF s.h[parent].left = rbn
         THEN Set(s, parent, "left", Nil)
         ELSE Set(s, parent, "right", Nil))

\* deleteNoChildren: unlink a leaf and repair if it was black.
deleteNoChildren(s, rbn) ==
    LET parent == s.h[rbn].parent
        unlinked ==
            IF s.h[parent].left = rbn
            THEN Set(s, parent, "left", Nil)
            ELSE Set(s, parent, "right", Nil)
    IN Deref(s, {rbn, parent},
         IF unlinked.h[rbn].isBlack THEN solveDoubleBlack(unlinked, rbn) ELSE unlinked)

\* findAndDeleteLeftmost: the frame after the removal and the removed value.
\* A faulty findAndDeleteLeftmost: the right child takes the place of its
\* parent and keeps its colour.
RECURSIVE findAndDeleteLeftmost_KeepsRed(_, _)
findAndDeleteLeftmost_KeepsRed(s, rbn) ==
    LET r == s.h[rbn].right
        p == s.h[rbn].parent
        relink(x) ==
            Deref(x, {p},
              IF x.h[p].left = rbn THEN Set(x, p, "left", r) ELSE Set(x, p, "right", r))
    IN IF s.h[rbn].left # Nil
       THEN findAndDeleteLeftmost_KeepsRed(s, s.h[rbn].left)
       ELSE IF r # Nil
       THEN [s   |-> Case(relink(Set(s, r, "parent", p)), "fdl_right_child"),
             val |-> s.h[rbn].Val]
       ELSE [s |-> deleteNoChildren(Case(s, "fdl_leaf"), rbn), val |-> s.h[rbn].Val]

\* A faulty findAndDeleteLeftmost: with a right child in the place of the
\* leftmost node, the value returned is the child's.
RECURSIVE findAndDeleteLeftmost_ReturnsChild(_, _)
findAndDeleteLeftmost_ReturnsChild(s, rbn) ==
    LET r == s.h[rbn].right
        p == s.h[rbn].parent
        relink(x) ==
            Deref(x, {p},
              IF x.h[p].left = rbn THEN Set(x, p, "left", r) ELSE Set(x, p, "right", r))
    IN IF s.h[rbn].left # Nil
       THEN findAndDeleteLeftmost_ReturnsChild(s, s.h[rbn].left)
       ELSE IF r # Nil
       THEN [s   |-> Case(relink(Set(Set(s, r, "parent", p), r, "isBlack", TRUE)),
                          "fdl_right_child"),
             val |-> s.h[r].Val]
       ELSE [s |-> deleteNoChildren(Case(s, "fdl_leaf"), rbn), val |-> s.h[rbn].Val]

RECURSIVE findAndDeleteLeftmost(_, _)
findAndDeleteLeftmost(s, rbn) ==
    LET r == s.h[rbn].right
        p == s.h[rbn].parent
        relink(x) ==
            Deref(x, {p},
              IF x.h[p].left = rbn THEN Set(x, p, "left", r) ELSE Set(x, p, "right", r))
    IN IF s.h[rbn].left # Nil
       THEN findAndDeleteLeftmost(s, s.h[rbn].left)
       ELSE IF r # Nil
       THEN [s   |-> Case(relink(Set(Set(s, r, "parent", p), r, "isBlack", TRUE)),
                          "fdl_right_child"),
             val |-> s.h[rbn].Val]
       ELSE [s |-> deleteNoChildren(Case(s, "fdl_leaf"), rbn), val |-> s.h[rbn].Val]

\* A faulty switch: a right child is unlinked without its value being
\* copied into the node.
RemoveNode_KeepsVal(s, rbnDelete) ==
    LET copy(r) == Set(r.s, rbnDelete, "Val", r.val)
    IN IF s.h[rbnDelete].left = Nil /\ s.h[rbnDelete].right = Nil
       THEN deleteNoChildren(Case(s, "del_none"), rbnDelete)
       ELSE IF s.h[rbnDelete].left = Nil
       THEN Set(Case(s, "del_one_right"), rbnDelete, "right", Nil)
       ELSE IF s.h[rbnDelete].right = Nil
       THEN Set(Set(Case(s, "del_one_left"), rbnDelete, "Val", s.h[s.h[rbnDelete].left].Val),
                rbnDelete, "left", Nil)
       ELSE copy(findAndDeleteLeftmost(Case(s, "del_two"), s.h[rbnDelete].right))

\* The switch of deleteCheckChildren.
RemoveNode(s, rbnDelete) ==
    LET copy(r) == Set(r.s, rbnDelete, "Val", r.val)
    IN IF s.h[rbnDelete].left = Nil /\ s.h[rbnDelete].right = Nil
       THEN deleteNoChildren(Case(s, "del_none"), rbnDelete)
       ELSE IF s.h[rbnDelete].left = Nil
       THEN Set(Set(Case(s, "del_one_right"), rbnDelete, "Val", s.h[s.h[rbnDelete].right].Val),
                rbnDelete, "right", Nil)
       ELSE IF s.h[rbnDelete].right = Nil
       THEN Set(Set(Case(s, "del_one_left"), rbnDelete, "Val", s.h[s.h[rbnDelete].left].Val),
                rbnDelete, "left", Nil)
       ELSE copy(findAndDeleteLeftmost(Case(s, "del_two"), s.h[rbnDelete].right))

\* A faulty deleteCheckChildren: Min and Max are not pointed back at the
\* node that took over the value of the removed one.
deleteCheckChildren_NoRepoint(s, rbnDelete) == RemoveNode(s, rbnDelete)

\* deleteCheckChildren: the continuation of Delete.
deleteCheckChildren(s, rbnDelete) ==
    LET repointMin(x) ==
            Deref(x, {x.Min},
              IF Cmp(x.cmp, x.h[rbnDelete].Val, x.h[x.Min].Val) = 0
              THEN [x EXCEPT !.Min = rbnDelete] ELSE x)
        repointMax(x) ==
            Deref(x, {x.Max},
              IF Cmp(x.cmp, x.h[rbnDelete].Val, x.h[x.Max].Val) = 0
              THEN [x EXCEPT !.Max = rbnDelete] ELSE x)
    IN repointMax(repointMin(RemoveNode(s, rbnDelete)))

-----------------------------------------------------------------------------
(* rbtree.go: the public methods *)

\* The first node of a tree: root, Min and Max, counted.
FirstNode(s, fresh) ==
    [s    |-> [s EXCEPT !.root = fresh, !.Min = fresh, !.Max = fresh, !.Count = @ + 1],
     node |-> fresh, ok |-> TRUE]

\* A faulty continuation of Insert: the resolver is called whatever the
\* colour of the new node's parent.
Inserted_AlwaysResolves(s, val, insertedNode) ==
    LET parent == s.h[insertedNode].parent
        minmax(x) ==
            Deref(x, {x.Min},
              IF Cmp(x.cmp, val, x.h[x.Min].Val) < 0
              THEN [x EXCEPT !.Min = insertedNode]
              ELSE Deref(x, {x.Max},
                     IF Cmp(x.cmp, val, x.h[x.Max].Val) > 0
                     THEN [x EXCEPT !.Max = insertedNode]
                     ELSE x))
    IN solveDoubleRed(minmax(s), parent)

\* Insert after rbt.root.insert made insertedNode: Min or Max follows, then
\* a red parent is resolved.
Inserted(s, val, insertedNode) ==
    LET parent == s.h[insertedNode].parent
        minmax(x) ==
            Deref(x, {x.Min},
              IF Cmp(x.cmp, val, x.h[x.Min].Val) < 0
              THEN [x EXCEPT !.Min = insertedNode]
              ELSE Deref(x, {x.Max},
                     IF Cmp(x.cmp, val, x.h[x.Max].Val) > 0
                     THEN [x EXCEPT !.Max = insertedNode]
                     ELSE x))
        resolve(x) ==
            Deref(x, {parent},
              IF ~x.h[parent].isBlack THEN solveDoubleRed(x, parent) ELSE x)
    IN resolve(minmax(s))

\* rbt.Count++ / rbt.Count--
Counted(s, by) == IF s.panic THEN s ELSE [s EXCEPT !.Count = @ + by]

\* A faulty Insert: the count is raised before the duplicate is noticed.
Insert_CountsDuplicates(s, val, fresh) ==
    LET done(r) ==
            IF ~r.ok
            THEN [s |-> r.s, node |-> r.node, ok |-> FALSE]
            ELSE [s |-> Inserted(r.s, val, r.node), node |-> r.node, ok |-> TRUE]
    IN IF s.root = Nil
       THEN FirstNode(NewNode(s, fresh, val, Nil, TRUE), fresh)
       ELSE done(insert(Counted(s, 1), s.root, val, fresh))

\* Insert: the frame afterwards, the node returned and the inserted flag.
Insert(s, val, fresh) ==
    LET done(r) ==
            IF ~r.ok
            THEN [s |-> r.s, node |-> r.node, ok |-> FALSE]
            ELSE [s |-> Counted(Inserted(r.s, val, r.node), 1), node |-> r.node, ok |-> TRUE]
    IN IF s.root = Nil
       THEN FirstNode(NewNode(s, fresh, val, Nil, TRUE), fresh)
       ELSE done(insert(s, s.root, val, fresh))

\* Find: the node found and the found flag.
Find(h, t, val) ==
    IF t.root = Nil THEN [node |-> Nil, ok |-> FALSE]
    ELSE find(h, t.cmp, t.root, val)

\* Delete past the last node: Min and Max leave the node that goes, then
\* deleteCheckChildren.
\* A faulty Delete: the value to return is read from the node after the
\* deletion overwrote it.
Removed_ReadsLate(s, rbnDelete, val) ==
    LET advanceMin(x) ==
            Deref(x, {x.Min},
              IF Cmp(x.cmp, val, x.h[x.Min].Val) = 0
              THEN [x EXCEPT !.Min = RBNodeNext(x.h, x.Min).node]
              ELSE x)
        advanceMax(x) ==
            Deref(x, {x.Max},
              IF Cmp(x.cmp, val, x.h[x.Max].Val) = 0
              THEN [x EXCEPT !.Max = RBNodePrev(x.h, x.Max).node]
              ELSE x)
        late(x) == [s |-> x, val |-> x.h[rbnDelete].Val, ok |-> TRUE]
    IN late(deleteCheckChildren(advanceMax(advanceMin(s)), rbnDelete))

Removed(s, rbnDelete, val) ==
    LET advanceMin(x) ==
            Deref(x, {x.Min},
              IF Cmp(x.cmp, val, x.h[x.Min].Val) = 0
              THEN [x EXCEPT !.Min = RBNodeNext(x.h, x.Min).node]
              ELSE x)
        advanceMax(x) ==
            Deref(x, {x.Max},
              IF Cmp(x.cmp, val, x.h[x.Max].Val) = 0
              THEN [x EXCEPT !.Max = RBNodePrev(x.h, x.Max).node]
              ELSE x)
    IN [s |-> deleteCheckChildren(advanceMax(advanceMin(s)), rbnDelete), val |-> val, ok |-> TRUE]

\* A faulty Delete: the count is lowered before the value is looked up.
Delete_CountsFirst(s, val) ==
    LET last(x, rbnDelete, v) ==
            IF x.Count = 0
            THEN [s |-> [x EXCEPT !.root = Nil, !.Min = Nil, !.Max = Nil], val |-> v, ok |-> TRUE]
            ELSE Removed(x, rbnDelete, v)
        found(f) ==
            IF ~f.ok
            THEN [s |-> Counted(s, -1), val |-> ZeroVal, ok |-> FALSE]
            ELSE last(Counted(s, -1), f.node, s.h[f.node].Val)
    IN IF s.root = Nil
       THEN [s |-> s, val |-> ZeroVal, ok |-> FALSE]
       ELSE found(find(s.h, s.cmp, s.root, val))

\* A faulty Delete: removing the last node clears root and Min but not Max.
Delete_KeepsMax(s, val) ==
    LET last(x, rbnDelete, v) ==
            IF x.Count = 0
            THEN [s |-> [x EXCEPT !.root = Nil, !.Min = Nil], val |-> v, ok |-> TRUE]
            ELSE Removed(x, rbnDelete, v)
        found(f) ==
            IF ~f.ok
            THEN [s |-> s, val |-> ZeroVal, ok |-> FALSE]
            ELSE last(Counted(s, -1), f.node, s.h[f.node].Val)
    IN IF s.root = Nil
       THEN [s |-> s, val |-> ZeroVal, ok |-> FALSE]
       ELSE found(find(s.h, s.cmp, s.root, val))

\* Delete: the frame afterwards, the value returned and the deleted flag.
Delete(s, val) ==
    LET found == find(s.h, s.cmp, s.root, val)
        \* rbt.Count--
        counted == Counted(s, -1)
    IN IF s.root = Nil
       THEN [s |-> s, val |-> ZeroVal, ok |-> FALSE]
       ELSE IF ~found.ok
       THEN [s |-> s, val |-> ZeroVal, ok |-> FALSE]
       ELSE IF counted.Count = 0
       THEN [s   |-> [counted EXCEPT !.root = Nil, !.Min = Nil, !.Max = Nil],
             val |-> s.h[found.node].Val, ok |-> TRUE]
       ELSE Removed(counted, found.node, s.h[found.node].Val)

\* A faulty Clone: Min and Max are copied as pointers, so they point into
\* the original.
Clone_CopiesPointers(h, t, free) ==
    LET tree(c) ==
            [h    |-> c.s.h,
             tree |-> [root |-> c.node, cmp |-> t.cmp, Min |-> t.Min, Max |-> t.Max,
                       Count |-> t.Count]]
    IN IF t.root = Nil
       THEN [h |-> h, tree |-> New(t.cmp)]
       ELSE tree(clone(Frame(h, t), t.root, free))

\* Clone: the heap with the copies in it and the new tree.
Clone(h, t, free) ==
    LET tree(c) ==
            [h    |-> c.s.h,
             tree |-> [root |-> c.node, cmp |-> t.cmp,
                       Min |-> leftmost(c.s.h, c.node), Max |-> rightmost(c.s.h, c.node),
                       Count |-> t.Count]]
    IN IF t.root = Nil
       THEN [h |-> h, tree |-> New(t.cmp)]
       ELSE tree(clone(Frame(h, t), t.root, free))

\* The loop of IsValid: the nodes visited from rbn by Next.
RECURSIVE CountNext(_, _)
CountNext(h, rbn) ==
    LET n == RBNodeNext(h, rbn)
    IN IF n.ok THEN 1 + CountNext(h, n.node) ELSE 1

\* A faulty IsValid: the nodes are not counted.
IsValid_NoCount(h, t) ==
    IF t.cmp = "nil" THEN FALSE
    ELSE IF t.root = Nil THEN t.Min = Nil /\ t.Max = Nil /\ t.Count = 0
    ELSE IF h[t.root].parent # Nil \/ ~h[t.root].isBlack THEN FALSE
    ELSE IF \/ ~isValid(h, t.cmp, t.root, 0, 0).ok
            \/ t.Min # leftmost(h, t.root)
            \/ t.Max # rightmost(h, t.root)
    THEN FALSE
    ELSE TRUE

IsValid(h, t) ==
    IF t.cmp = "nil" THEN FALSE
    ELSE IF t.root = Nil THEN t.Min = Nil /\ t.Max = Nil /\ t.Count = 0
    ELSE IF h[t.root].parent # Nil \/ ~h[t.root].isBlack THEN FALSE
    ELSE IF \/ ~isValid(h, t.cmp, t.root, 0, 0).ok
            \/ t.Min # leftmost(h, t.root)
            \/ t.Max # rightmost(h, t.root)
    THEN FALSE
    ELSE CountNext(h, t.Min) = t.Count

\* IsValid does not return: the one dereference it does not guard itself,
\* rbn.parent.isBlack of a red node, met a nil parent.
IsValidPanics(h, t) ==
    /\ t.cmp # "nil"
    /\ t.root # Nil
    /\ h[t.root].parent = Nil
    /\ h[t.root].isBlack
    /\ isValid(h, t.cmp, t.root, 0, 0).panic

\* A nil *RBTree.
NilTree == [nil |-> TRUE]

\* EqualTo on two trees of the heap; anotherRBT may be NilTree.
EqualTo(h, t, anotherRBT) ==
    IF anotherRBT = NilTree THEN FALSE
    ELSE IF t.root = Nil /\ anotherRBT.root = Nil THEN TRUE
    ELSE IF t.root = Nil \/ anotherRBT.root = Nil THEN FALSE
    ELSE IF t.Count # anotherRBT.Count THEN FALSE
    ELSE equalTo(h, t.cmp, t.root, anotherRBT.root)

\* String
String(h, t) == IF t.root = Nil THEN "" ELSE recString(h, t.root, "", 0)

-----------------------------------------------------------------------------
(* Memory: Go is garbage collected and addresses are not observable *)

\* The nodes reachable from S through left, right and parent.
RECURSIVE Closure(_, _)
Closure(h, S) ==
    LET T == (S \cup UNION {{h[n].left, h[n].right, h[n].parent} : n \in S}) \ {Nil}
    IN IF T = S THEN S ELSE Closure(h, T)

RECURSIVE InOrder(_, _)
InOrder(h, rbn) ==
    IF rbn = Nil THEN <<>>
    ELSE InOrder(h, h[rbn].left) \o <<rbn>> \o InOrder(h, h[rbn].right)

Range(q) == {q[i] : i \in 1..Len(q)}

\* The nodes a tree keeps alive.
Live(h, t) == Closure(h, Range(InOrder(h, t.root)) \cup ({t.Min, t.Max} \ {Nil}))

\* Unreachable nodes are gone: their addresses hold the zero node again.
Collect(h, live) == [n \in DOMAIN h |-> IF n \in live THEN h[n] ELSE ZeroNode]

RECURSIVE SortedSeq(_)
SortedSeq(S) ==
    IF S = {} THEN <<>>
    ELSE LET m == CHOOSE x \in S : \A y \in S : x <= y
         IN <<m>> \o SortedSeq(S \ {m})

\* The addresses new(RBNode) returns in a row: the free ones, lowest first.
FreeList(h, live) ==
    SelectSeq([a \in 1..(Cardinality(DOMAIN h) - 1) |-> a], LAMBDA a : a \notin live)

\* The address new(RBNode) returns.
Allocate(h, live) == Head(FreeList(h, live))

\* A sequence without the later occurrences of its elements.
Once(all) ==
    IF Cardinality(Range(all)) = Len(all) THEN all
    ELSE LET idx == SelectSeq([i \in 1..Len(all) |-> i],
                              LAMBDA i : \A j \in 1..(i - 1) : all[j] # all[i])
         IN [k \in 1..Len(idx) |-> all[idx[k]]]

\* The live nodes in a fixed order: the nodes of tree t in order, those of
\* tree c in order, then whatever else t and c keep alive; each node once.
LiveOrder(h, t, c) ==
    LET rest(q) == q \o SortedSeq((Live(h, t) \cup Live(h, c)) \ Range(q))
    IN Once(rest(InOrder(h, t.root) \o InOrder(h, c.root)))

\* The heap and the trees with the i-th node of ord at address i.
Renamed(h, t, c, ord) ==
    LET n    == Len(ord)
        live == Range(ord)
        to   == [a \in DOMAIN h |->
                   IF a \in live THEN CHOOSE i \in 1..n : ord[i] = a ELSE Nil]
        mv(r) == [Val |-> r.Val, left |-> to[r.left], right |-> to[r.right],
                  parent |-> to[r.parent], isBlack |-> r.isBlack]
        tr(x) == [x EXCEPT !.root = to[x.root], !.Min = to[x.Min], !.Max = to[x.Max]]
    IN [h  |-> [a \in DOMAIN h |-> IF a \in 1..n THEN mv(h[ord[a]]) ELSE ZeroNode],
        t  |-> tr(t),
        c  |-> tr(c),
        to |-> to]

\* A Go program cannot observe the address of a node, only whether two
\* pointers are equal, so the heap is kept up to renaming of addresses: at
\* the end of every operation the i-th node of LiveOrder is given address i
\* and every pointer follows it.  Settle returns the renamed heap and trees
\* and the renaming to[_] itself, for the pointers the operation returns.
Settle(h, t, c) == Renamed(h, t, c, LiveOrder(h, t, c))

-----------------------------------------------------------------------------
(* The operations of a caller, one action each *)

NoOp == [name |-> "New", arg |-> ZeroVal, node |-> Nil, val |-> ZeroVal, ok |-> FALSE,
         rot |-> 0, dr |-> 0, db |-> 0, cases |-> {}]

Has(c, S, v) == \E x \in S : Cmp(c, x, v) = 0

InitWith(who, t, n) ==
    /\ caller = who
    /\ heap = [a \in Addresses(n) \cup {Nil} |-> ZeroNode]
    /\ rbt = t
    /\ cl = NoTree
    /\ op = NoOp
    /\ model = {}
    /\ panicked = FALSE

\* rbTree := rbtree.NewOrdered[int](), in the hands of a client that calls
\* the methods in any order or of BenchmarkRW's InsertDelete loop.
Init ==
    \/ InitWith("client", NewOrdered, 2 * MaxVal)
    \/ InitWith("bench", NewOrdered, MaxBench)

\* rbTree := rbtree.New(compareKeys[int, int]) of the ordered-map example.
InitKV == InitWith("example", New("compareKeys"), 2 * MaxKey)

\* What the caller sees of a call that worked on frame s.
Observed(name, arg, node, val, ok, s) ==
    [name |-> name, arg |-> arg, node |-> node, val |-> val, ok |-> ok,
     rot |-> s.rot, dr |-> s.dr, db |-> s.db, cases |-> s.cases]

InsertOp(val) ==
    /\ ~panicked
    /\ LET returned(r, m) ==
               /\ rbt' = m.t
               /\ heap' = m.h
               /\ op' = Observed("Insert", val, m.to[r.node], ZeroVal, r.ok, r.s)
               /\ panicked' = r.s.panic
           called(r) == returned(r, Settle(r.s.h, TreeOf(r.s), NoTree))
           call(live) ==
               called(Insert(Frame(Collect(heap, live), rbt), val, Allocate(heap, live)))
       IN call(Live(heap, rbt))
    /\ model' = IF Has(rbt.cmp, model, val) THEN model ELSE model \cup {val}
    /\ cl' = NoTree
    /\ UNCHANGED caller

FindOp(val) ==
    /\ ~panicked
    /\ LET returned(r, m) ==
               /\ heap' = m.h
               /\ rbt' = m.t
               /\ op' = [NoOp EXCEPT !.name = "Find", !.arg = val,
                                     !.node = m.to[r.node], !.ok = r.ok]
       IN returned(Find(heap, rbt, val), Settle(heap, rbt, NoTree))
    /\ cl' = NoTree
    /\ UNCHANGED <<model, panicked, caller>>

DeleteOp(val) ==
    /\ ~panicked
    /\ LET returned(r, m) ==
               /\ rbt' = m.t
               /\ heap' = m.h
               /\ op' = Observed("Delete", val, Nil, r.val, r.ok, r.s)
               /\ panicked' = r.s.panic
           called(r) == returned(r, Settle(r.s.h, TreeOf(r.s), NoTree))
       IN called(Delete(Frame(Collect(heap, Live(heap, rbt)), rbt), val))
    /\ model' = {x \in model : Cmp(rbt.cmp, x, val) # 0}
    /\ cl' = NoTree
    /\ UNCHANGED caller

CloneOp ==
    /\ ~panicked
    /\ LET returned(m) ==
               /\ heap' = m.h
               /\ rbt' = m.t
               /\ cl' = m.c
           called(r) == returned(Settle(r.h, rbt, r.tree))
           call(live) == called(Clone(Collect(heap, live), rbt, FreeList(heap, live)))
       IN call(Live(heap, rbt))
    /\ op' = [NoOp EXCEPT !.name = "Clone"]
    /\ UNCHANGED <<model, panicked, caller>>

\* BenchmarkRW, InsertDelete: for i := range treeSize { Insert(i) }.
BenchInsert ==
    /\ caller = "bench"
    /\ op.name \in {"New", "Insert"} \/ rbt.root = Nil
    /\ rbt.Count < MaxBench
    /\ InsertOp(rbt.Count)

\* BenchmarkRW, InsertDelete: for i := range treeSize { Delete(i) }.
BenchDelete ==
    /\ caller = "bench"
    /\ model # {}
    /\ DeleteOp(CHOOSE i \in model : \A j \in model : i <= j)

\* A client that calls the methods in any order, or the benchmark.
Next ==
    \/ caller = "client" /\ \E val \in OrderedVals : InsertOp(val)
    \/ caller = "client" /\ \E val \in OrderedVals : FindOp(val)
    \/ caller = "client" /\ \E val \in OrderedVals : DeleteOp(val)
    \/ caller = "client" /\ CloneOp
    \/ BenchInsert
    \/ BenchDelete

Spec == Init /\ [][Next]_vars

\* The ordered-map example: items compared by key alone.
NextKV ==
    \/ \E val \in ItemVals : InsertOp(val)
    \/ \E val \in ItemVals : FindOp(val)
    \/ \E val \in ItemVals : DeleteOp(val)
    \/ CloneOp

SpecKV == InitKV /\ [][NextKV]_vars

\* The values of the tests' tree in the order in which a caller inserts
\* them.
Scenario == <<70, 50, 80, 20, 60, 75, 100>>

\* The caller of the scenario inserts the next value.
ScenarioInsert ==
    /\ caller = "scenario"
    /\ Cardinality(model) < Len(Scenario)
    /\ InsertOp(Scenario[Cardinality(model) + 1])

\* The clients of Spec, and the caller of the scenario.
InitString == Init \/ InitWith("scenario", NewOrdered, Len(Scenario))

NextString == Next \/ ScenarioInsert

SpecString == InitString /\ [][NextString]_vars

-----------------------------------------------------------------------------
(* A caller that keeps a tree and its clone, as the ordered-map example does
   with rbTree and rbTreeCopy, and goes on calling methods of both *)

InitClone == InitWith("cloner", NewOrdered, 2 * MaxCloneVal)

CloneVals == 1..MaxCloneVal

\* The trees after a call on one of the two.
Pair(onClone, s) ==
    IF onClone THEN Settle(s.h, rbt, TreeOf(s)) ELSE Settle(s.h, TreeOf(s), cl)

\* rbTreeCopy.Insert(val) if onClone, rbTree.Insert(val) otherwise, of a
\* value the tree does not hold: a refused Insert assigns nothing.
PairInsertOp(onClone, val) ==
    /\ ~panicked
    /\ cl # NoTree
    /\ ~Find(heap, IF onClone THEN cl ELSE rbt, val).ok
    /\ LET returned(r, m) ==
               /\ heap' = m.h
               /\ rbt' = m.t
               /\ cl' = m.c
               /\ op' = Observed(IF onClone THEN "CloneInsert" ELSE "Insert",
                                 val, m.to[r.node], ZeroVal, r.ok, r.s)
               /\ panicked' = r.s.panic
           called(r) == returned(r, Pair(onClone, r.s))
           call(live) ==
               called(Insert(Frame(Collect(heap, live), IF onClone THEN cl ELSE rbt),
                             val, Allocate(heap, live)))
       IN call(Live(heap, rbt) \cup Live(heap, cl))
    /\ model' = IF onClone \/ Has(rbt.cmp, model, val) THEN model ELSE model \cup {val}
    /\ UNCHANGED caller

\* rbTreeCopy.Delete(val) if onClone, rbTree.Delete(val) otherwise, of a
\* value the tree holds: a refused Delete assigns nothing.
PairDeleteOp(onClone, val) ==
    /\ ~panicked
    /\ cl # NoTree
    /\ Find(heap, IF onClone THEN cl ELSE rbt, val).ok
    /\ LET returned(r, m) ==
               /\ heap' = m.h
               /\ rbt' = m.t
               /\ cl' = m.c
               /\ op' = Observed(IF onClone THEN "CloneDelete" ELSE "Delete",
                                 val, Nil, r.val, r.ok, r.s)
               /\ panicked' = r.s.panic
           called(r) == returned(r, Pair(onClone, r.s))
       IN called(Delete(Frame(Collect(heap, Live(heap, rbt) \cup Live(heap, cl)),
                              IF onClone THEN cl ELSE rbt), val))
    /\ model' = IF onClone THEN model ELSE {x \in model : Cmp(rbt.cmp, x, val) # 0}
    /\ UNCHANGED caller

NextClone ==
    \/ cl = NoTree /\ \E val \in CloneVals : InsertOp(val)
    \/ cl = NoTree /\ \E val \in CloneVals : DeleteOp(val)
    \/ cl = NoTree /\ CloneOp
    \/ \E onClone \in BOOLEAN, val \in CloneVals : PairInsertOp(onClone, val)
    \/ \E onClone \in BOOLEAN, val \in CloneVals : PairDeleteOp(onClone, val)

SpecClone == InitClone /\ [][NextClone]_vars

-----------------------------------------------------------------------------
(* Trees assembled by hand, as rbtree_test.go assembles them: a tree built by
   a literal or by Insert and Delete, then assignments to the fields of the
   tree and of its nodes. *)

\* The values the tests put into the nodes they add or change.
TestVals == {10, 75, 110}

\* initRBTBefore(): the nodes are numbered in the order of their values.
FixtureNode(val, left, right, parent, black) ==
    [Val |-> val, left |-> left, right |-> right, parent |-> parent, isBlack |-> black]

FixtureHeap ==
    [a \in Addresses(5 + MaxEdits) \cup {Nil} |->
        CASE a = 1 -> FixtureNode(20, Nil, Nil, 2, TRUE)
          [] a = 2 -> FixtureNode(50, 1, 3, 4, FALSE)
          [] a = 3 -> FixtureNode(60, Nil, Nil, 2, TRUE)
          [] a = 4 -> FixtureNode(70, 2, 6, Nil, TRUE)
          [] a = 5 -> FixtureNode(75, Nil, Nil, 6, TRUE)
          [] a = 6 -> FixtureNode(80, 5, 7, 4, FALSE)
          [] a = 7 -> FixtureNode(100, Nil, Nil, 6, TRUE)
          [] OTHER -> ZeroNode]

initRBTBefore == [NewOrdered EXCEPT !.root = 4, !.Count = 7, !.Min = 1, !.Max = 7]

\* A test that starts from initRBTBefore(), or one that starts from the empty
\* tree and first builds a tree with Insert and Delete.
InitBuilt ==
    \/ /\ caller = "test"
       /\ heap = FixtureHeap
       /\ rbt = initRBTBefore
       /\ cl = NoTree
       /\ op = NoOp
       /\ model = {}
       /\ panicked = FALSE
    \/ InitWith("builder", NewOrdered, 5 + MaxEdits)

\* The number of assignments the test has made.
Assignments == IF op.name = "Assign" THEN op.arg ELSE 0

\* The nodes a hand-made tree keeps alive, whatever its pointers form.
Kept(h, t) == Closure(h, {t.root, t.Min, t.Max} \ {Nil})

\* One more assignment has left the heap h and the tree t.
Assigned(h, t) ==
    /\ Assignments < MaxEdits
    /\ heap' = Collect(h, Kept(h, t))
    /\ rbt' = t
    /\ op' = [NoOp EXCEPT !.name = "Assign", !.arg = Assignments + 1]
    /\ UNCHANGED <<cl, model, panicked, caller>>

\* rbt.Count++ and rbt.Count--
AssignCount(by) == Assigned(heap, [rbt EXCEPT !.Count = @ + by])

\* A tree without comparator, as &RBTree[int]{} is.
AssignCmp == rbt.cmp # "nil" /\ Assigned(heap, [rbt EXCEPT !.cmp = "nil"])

\* rbt.root = m, rbt.Min = m, rbt.Max = m
AssignRoot(m) == Assigned(heap, [rbt EXCEPT !.root = m])

AssignMin(m) == Assigned(heap, [rbt EXCEPT !.Min = m])

AssignMax(m) == Assigned(heap, [rbt EXCEPT !.Max = m])

\* n.isBlack = black, n.Val = val
AssignColour(n, black) == Assigned([heap EXCEPT ![n].isBlack = black], rbt)

AssignVal(n, val) == Assigned([heap EXCEPT ![n].Val = val], rbt)

\* n.left = m, n.right = m, n.parent = m
AssignLeft(n, m) == Assigned([heap EXCEPT ![n].left = m], rbt)

AssignRight(n, m) == Assigned([heap EXCEPT ![n].right = m], rbt)

AssignParent(n, m) == Assigned([heap EXCEPT ![n].parent = m], rbt)

\* n.left = &RBNode[int]{Val: val, isBlack: black, parent: n}, and the same
\* for n.right and for the root of an empty tree.
Literal(val, black, parent) == FixtureNode(val, Nil, Nil, parent, black)

AttachLeft(n, val, black) ==
    /\ heap[n].left = Nil
    /\ LET new == Allocate(heap, Kept(heap, rbt))
       IN Assigned([heap EXCEPT ![new] = Literal(val, black, n), ![n].left = new], rbt)

AttachRight(n, val, black) ==
    /\ heap[n].right = Nil
    /\ LET new == Allocate(heap, Kept(heap, rbt))
       IN Assigned([heap EXCEPT ![new] = Literal(val, black, n), ![n].right = new], rbt)

AttachRoot(val, black) ==
    /\ rbt.root = Nil
    /\ LET new == Allocate(heap, Kept(heap, rbt))
       IN Assigned([heap EXCEPT ![new] = Literal(val, black, Nil)], [rbt EXCEPT !.root = new])

NextBuilt ==
    \/ caller = "builder" /\ Assignments = 0 /\ \E val \in TestVals : InsertOp(val)
    \/ caller = "builder" /\ Assignments = 0 /\ \E val \in TestVals : DeleteOp(val)
    \/ \E by \in {-1, 1} : AssignCount(by)
    \/ AssignCmp
    \/ \E m \in Kept(heap, rbt) \cup {Nil} : AssignRoot(m)
    \/ \E m \in Kept(heap, rbt) \cup {Nil} : AssignMin(m)
    \/ \E m \in Kept(heap, rbt) \cup {Nil} : AssignMax(m)
    \/ \E n \in Kept(heap, rbt) : \E black \in BOOLEAN : AssignColour(n, black)
    \/ \E n \in Kept(heap, rbt) : \E val \in TestVals : AssignVal(n, val)
    \/ \E n \in Kept(heap, rbt) : \E m \in Kept(heap, rbt) \cup {Nil} : AssignLeft(n, m)
    \/ \E n \in Kept(heap, rbt) : \E m \in Kept(heap, rbt) \cup {Nil} : AssignRight(n, m)
    \/ \E n \in Kept(heap, rbt) : \E m \in Kept(heap, rbt) \cup {Nil} : AssignParent(n, m)
    \/ \E n \in Kept(heap, rbt) : \E val \in TestVals : \E black \in BOOLEAN :
          AttachLeft(n, val, black)
    \/ \E n \in Kept(heap, rbt) : \E val \in TestVals : \E black \in BOOLEAN :
          AttachRight(n, val, black)
    \/ \E val \in TestVals : \E black \in BOOLEAN : AttachRoot(val, black)

SpecBuilt == InitBuilt /\ [][NextBuilt]_vars

-----------------------------------------------------------------------------
(* What the properties are stated in *)

\* The nodes reachable from a root through left and right.
Nodes(h, root) == Range(InOrder(h, root))

\* The values stored in the nodes of a tree.
Values(h, t) == {h[n].Val : n \in Nodes(h, t.root)}

\* The nodes of a tree with all their fields.
TreeView(h, t) == [n \in Nodes(h, t.root) |-> h[n]]

\* The numbers of black nodes along the paths from rbn down to a nil
\* child, counted on top of acc.
RECURSIVE PathBlacks(_, _, _)
PathBlacks(h, rbn, acc) ==
    IF rbn = Nil THEN {acc}
    ELSE LET a == acc + (IF h[rbn].isBlack THEN 1 ELSE 0)
         IN PathBlacks(h, h[rbn].left, a) \cup PathBlacks(h, h[rbn].right, a)

Children(h, n) == {h[n].left, h[n].right} \ {Nil}

RootIsBlack(h, t) == t.root # Nil => h[t.root].isBlack /\ h[t.root].parent = Nil

NoRedRed(h, t) ==
    \A n \in Nodes(h, t.root) : \A k \in Children(h, n) : h[n].isBlack \/ h[k].isBlack

EqualBlackHeights(h, t) == Cardinality(PathBlacks(h, t.root, 0)) = 1

SubtreesOrdered(h, t) ==
    \A n \in Nodes(h, t.root) :
        /\ \A m \in Nodes(h, h[n].left)  : Cmp(t.cmp, h[m].Val, h[n].Val) < 0
        /\ \A m \in Nodes(h, h[n].right) : Cmp(t.cmp, h[m].Val, h[n].Val) > 0

InOrderIncreasing(h, t) ==
    LET q == InOrder(h, t.root)
    IN \A i \in 1..(Len(q) - 1) : Cmp(t.cmp, h[q[i]].Val, h[q[i + 1]].Val) < 0

ParentsPointBack(h, t) ==
    \A n \in Nodes(h, t.root) : \A k \in Children(h, n) : h[k].parent = n

\* The node of the tree whose value compares equal to v, or Nil.
Holder(h, t, v) ==
    LET S == {n \in Nodes(h, t.root) : Cmp(t.cmp, h[n].Val, v) = 0}
    IN IF S = {} THEN Nil ELSE CHOOSE n \in S : TRUE

-----------------------------------------------------------------------------
(* Properties *)

\* C1: after every Insert and Delete the root, if any, is black and has no
\* parent, no red node has a red child (so none has a red parent), and every
\* path from the root down to a nil child passes the same number of black
\* nodes.
C1_ColourInvariants ==
    /\ RootIsBlack(heap, rbt)
    /\ NoRedRed(heap, rbt)
    /\ EqualBlackHeights(heap, rbt)

\* A Delete that met a red sibling and then rotated a second time.
C1_Witness ==
    /\ op.name = "Delete" /\ op.ok
    /\ "db_red_sibling" \in op.cases
    /\ op.rot >= 2
    /\ \E n \in Nodes(heap, rbt.root) : ~heap[n].isBlack

\* C2: under the comparator every value of a left subtree is smaller and
\* every value of a right subtree is greater than the value of the node, the
\* in-order traversal is strictly increasing, and every child's parent
\* pointer is the node holding it.
C2_SearchTree ==
    /\ SubtreesOrdered(heap, rbt)
    /\ InOrderIncreasing(heap, rbt)
    /\ ParentsPointBack(heap, rbt)

\* A Delete of a node with two children that took a rotation to repair.
C2_Witness ==
    /\ op.name = "Delete" /\ op.ok
    /\ "del_two" \in op.cases
    /\ op.rot >= 1
    /\ rbt.Count >= 4

\* C3: the tree behaves as the set of the values put in and not taken out:
\* Insert reports success exactly if the value was absent, Delete and Find
\* exactly if it was present, a found node holds a value that compares equal,
\* Find of the value just passed to Insert finds the node Insert returned,
\* and the values in the tree are always exactly those of the set.
C3_Step ==
    LET c   == rbt.cmp
        v   == op'.arg
        was == Has(c, model, v)
    IN /\ op'.name = "Insert" =>
            /\ op'.ok = ~was
            /\ Find(heap', rbt', v) = [node |-> op'.node, ok |-> TRUE]
       /\ op'.name = "Delete" => op'.ok = was
       /\ op'.name = "Find" =>
            /\ op'.ok = was
            /\ op'.ok => op'.node # Nil /\ Cmp(c, heap'[op'.node].Val, v) = 0
       /\ Values(heap', rbt') = model'

C3_RefinesSet == [][C3_Step]_vars

\* A Find that found a node below the root.
C3_Witness ==
    /\ op.name = "Find" /\ op.ok
    /\ op.node # rbt.root
    /\ heap[op.node].Val = op.arg
    /\ rbt.Count >= 3

\* C4: Count is the number of nodes reachable from the root, which is the
\* number of distinct values in the tree, and is never negative.
C4_Count ==
    /\ rbt.Count = Cardinality(Nodes(heap, rbt.root))
    /\ rbt.Count = Cardinality(model)
    /\ rbt.Count >= 0

\* An Insert of a value already there, in a tree of several nodes.
C4_Witness ==
    /\ op.name = "Insert" /\ ~op.ok
    /\ rbt.Count >= 3

\* C5: Min and Max are the leftmost and the rightmost node reachable from the
\* root, so never a detached node, and both are nil exactly if the tree is
\* empty.
C5_MinMax ==
    IF rbt.root = Nil
    THEN rbt.Min = Nil /\ rbt.Max = Nil
    ELSE /\ rbt.Min = leftmost(heap, rbt.root)
         /\ rbt.Max = rightmost(heap, rbt.root)
         /\ {rbt.Min, rbt.Max} \subseteq Nodes(heap, rbt.root)

\* A Delete of the smallest value whose node had a right child: the value of
\* the child was copied up and the child, the successor, was unlinked.
C5_Witness ==
    /\ op.name = "Delete" /\ op.ok
    /\ "del_one_right" \in op.cases
    /\ rbt.root # Nil
    /\ \A x \in Values(heap, rbt) : Cmp(rbt.cmp, op.val, x) < 0

\* C6: IsValid() is true after every operation, on the empty tree too.
C6_IsValid == IsValid(heap, rbt)

\* A Delete whose repair went up the tree three times.
C6_Witness ==
    /\ op.name = "Delete" /\ op.ok
    /\ op.db >= 3

\* C7: Insert of a value that compares equal to one in the tree reports
\* inserted = false, returns the node that holds it, and leaves root, Min,
\* Max, Count and every node as they were: the stored value stays.
C7_Step ==
    (op'.name = "Insert" /\ Has(rbt.cmp, Values(heap, rbt), op'.arg)) =>
        /\ ~op'.ok
        /\ op'.node = Holder(heap, rbt, op'.arg)
        /\ rbt' = rbt
        /\ TreeView(heap', rbt') = TreeView(heap, rbt)

C7_DuplicateInsert == [][C7_Step]_vars

\* A refused Insert of an item with the key of a stored item and another
\* payload.
C7_Witness ==
    /\ op.name = "Insert" /\ ~op.ok
    /\ op.node # Nil
    /\ heap[op.node].Val # op.arg
    /\ ItemKey(heap[op.node].Val) = ItemKey(op.arg)

\* C8: Delete of a value that is not in the tree, the empty tree included,
\* returns the zero value and false and leaves a valid, unchanged tree.
C8_Step ==
    (op'.name = "Delete" /\ ~Has(rbt.cmp, Values(heap, rbt), op'.arg)) =>
        /\ ~op'.ok
        /\ op'.val = ZeroVal
        /\ rbt' = rbt
        /\ TreeView(heap', rbt') = TreeView(heap, rbt)
        /\ IsValid(heap', rbt')

C8_DeleteAbsent == [][C8_Step]_vars

\* A refused Delete on a tree that is not empty.
C8_Witness ==
    /\ op.name = "Delete" /\ ~op.ok
    /\ op.val = ZeroVal
    /\ rbt.Count >= 2

\* C9: Delete of the only value of a one-node tree returns the value and
\* true and leaves the empty tree: root, Min and Max nil, Count zero, valid.
C9_Step ==
    (/\ op'.name = "Delete"
     /\ Cardinality(Nodes(heap, rbt.root)) = 1
     /\ Cmp(rbt.cmp, heap[rbt.root].Val, op'.arg) = 0) =>
        /\ op'.ok
        /\ op'.val = heap[rbt.root].Val
        /\ rbt'.root = Nil /\ rbt'.Min = Nil /\ rbt'.Max = Nil /\ rbt'.Count = 0
        /\ IsValid(heap', rbt')

C9_DeleteLast == [][C9_Step]_vars

\* The tree right after its last value was deleted.
C9_Witness ==
    /\ op.name = "Delete" /\ op.ok
    /\ op.val = op.arg
    /\ rbt.root = Nil

\* C10: the tree Clone returns is valid, has the Count of the original, has
\* Min and Max holding the values of the original's Min and Max (nil for an
\* empty tree), has every parent pointer pointing into the clone, and
\* EqualTo holds between the two in both directions.
C10_Clone ==
    op.name = "Clone" =>
        /\ IsValid(heap, cl)
        /\ cl.Count = rbt.Count
        /\ IF rbt.root = Nil
           THEN cl.Min = Nil /\ cl.Max = Nil
           ELSE /\ cl.Min # Nil /\ cl.Max # Nil
                /\ heap[cl.Min].Val = heap[rbt.Min].Val
                /\ heap[cl.Max].Val = heap[rbt.Max].Val
        /\ ParentsPointBack(heap, cl)
        /\ \A n \in Nodes(heap, cl.root) :
              heap[n].parent \in Nodes(heap, cl.root) \cup {Nil}
        /\ EqualTo(heap, rbt, cl)
        /\ EqualTo(heap, cl, rbt)

\* A clone of a tree of five or more nodes, some of them red.
C10_Witness ==
    /\ op.name = "Clone"
    /\ cl.Count >= 5
    /\ \E n \in Nodes(heap, cl.root) : ~heap[n].isBlack
    /\ Nodes(heap, cl.root) \cap Nodes(heap, rbt.root) = {}

\* The shape of the tree below rbn with the value and colour at every
\* position.
RECURSIVE Shape(_, _)
Shape(h, rbn) ==
    IF rbn = Nil THEN <<>>
    ELSE <<h[rbn].Val, h[rbn].isBlack, Shape(h, h[rbn].left), Shape(h, h[rbn].right)>>

\* The place of a node in the in-order sequence q, 0 if it is not in it.
Place(q, n) == IF \E i \in 1..Len(q) : q[i] = n THEN CHOOSE i \in 1..Len(q) : q[i] = n ELSE 0

\* All a caller can see of a tree, whatever the addresses of its nodes.
View(h, t) ==
    [shape |-> Shape(h, t.root), Count |-> t.Count, parents |-> ParentsPointBack(h, t),
     Min |-> Place(InOrder(h, t.root), t.Min), Max |-> Place(InOrder(h, t.root), t.Max)]

\* C11: a clone shares no node with its original, Min and Max included, so
\* an Insert or Delete on the clone leaves shape, colours, values, Count, Min
\* and Max of the original as they were, and an Insert or Delete on the
\* original leaves those of the clone as they were.
C11_Step ==
    /\ cl' # NoTree =>
          /\ Live(heap', rbt') \cap Live(heap', cl') = {}
          /\ {cl'.Min, cl'.Max} \ {Nil} \subseteq Nodes(heap', cl'.root)
          /\ {rbt'.Min, rbt'.Max} \ {Nil} \subseteq Nodes(heap', rbt'.root)
    /\ (cl # NoTree /\ op'.name \in {"CloneInsert", "CloneDelete"}) =>
          View(heap', rbt') = View(heap, rbt)
    /\ (cl # NoTree /\ op'.name \in {"Insert", "Delete"}) =>
          View(heap', cl') = View(heap, cl)

C11_CloneIndependent == [][C11_Step]_vars

\* The clone lost its minimum by a Delete with a repair and the original is
\* larger than it now.
C11_Witness ==
    /\ op.name = "CloneDelete" /\ op.ok
    /\ op.db >= 1
    /\ cl.Count < rbt.Count
    /\ rbt.Count >= 3
    /\ heap[rbt.Min].Val = op.val

\* Positional equality of two non-nil trees, written without the descent:
\* both empty, or both non-empty with equal Count and the same value and
\* colour at every position of either tree.
SamePositions(h, a, b) ==
    \/ a.root = Nil /\ b.root = Nil
    \/ /\ a.root # Nil
       /\ b.root # Nil
       /\ a.Count = b.Count
       /\ Shape(h, a.root) = Shape(h, b.root)

\* The values of a tree in order, and a tree without its colours.
Sorted(h, t) == [i \in 1..Len(InOrder(h, t.root)) |-> h[InOrder(h, t.root)[i]].Val]

RECURSIVE Skeleton(_, _)
Skeleton(h, rbn) ==
    IF rbn = Nil THEN <<>>
    ELSE <<h[rbn].Val, Skeleton(h, h[rbn].left), Skeleton(h, h[rbn].right)>>

\* C12: EqualTo is positional structural equality.  a.EqualTo(b) is true if
\* and only if b is not nil and the two trees are both empty, or both
\* non-empty with equal Count and, position by position, a node in both or
\* in neither, with equal value and equal colour; this holds in both
\* directions of the call.  So two trees that differ in Count, in shape, in a
\* value or in a colour are not EqualTo, also when they hold the same values.
C12_EqualTo ==
    /\ ~EqualTo(heap, rbt, NilTree)
    /\ cl # NoTree =>
          /\ ~EqualTo(heap, cl, NilTree)
          /\ EqualTo(heap, rbt, cl) <=> SamePositions(heap, rbt, cl)
          /\ EqualTo(heap, cl, rbt) <=> SamePositions(heap, cl, rbt)
          /\ (Sorted(heap, rbt) = Sorted(heap, cl) /\ Shape(heap, rbt.root) # Shape(heap, cl.root))
                 => ~EqualTo(heap, rbt, cl)

\* Two trees with the same values at the same positions that differ in a
\* colour only, and are told apart.
C12_Witness ==
    /\ cl # NoTree
    /\ rbt.Count >= 3
    /\ Skeleton(heap, rbt.root) = Skeleton(heap, cl.root)
    /\ Shape(heap, rbt.root) # Shape(heap, cl.root)
    /\ ~EqualTo(heap, rbt, cl)
    /\ ~EqualTo(heap, cl, rbt)

\* for rbNode, ok := from, from != nil; ok; rbNode, ok = rbNode.Next() {...}:
\* the nodes the loop visits, in the order of the visits (at most fuel + 1).
RECURSIVE Forward(_, _, _)
Forward(h, rbn, fuel) ==
    IF rbn = Nil THEN <<>>
    ELSE IF fuel = 0 \/ ~RBNodeNext(h, rbn).ok THEN <<rbn>>
    ELSE <<rbn>> \o Forward(h, RBNodeNext(h, rbn).node, fuel - 1)

\* The same loop with Prev, as orderedmap.go runs it from Max.
RECURSIVE Backward(_, _, _)
Backward(h, rbn, fuel) ==
    IF rbn = Nil THEN <<>>
    ELSE IF fuel = 0 \/ ~RBNodePrev(h, rbn).ok THEN <<rbn>>
    ELSE <<rbn>> \o Backward(h, RBNodePrev(h, rbn).node, fuel - 1)

Reversed(q) == [i \in 1..Len(q) |-> q[Len(q) + 1 - i]]

\* C13: Next() of a node returns the node with the next larger value and
\* true, and (nil, false) exactly when the node is Max; Prev() returns the
\* node with the next smaller value and true, and (nil, false) exactly when
\* the node is Min.  Walking from Min by Next visits every node once, Count
\* nodes in all, in strictly increasing order of value; walking from Max by
\* Prev visits them in strictly decreasing order.
C13_NextPrev ==
    LET all  == Nodes(heap, rbt.root)
        up   == Forward(heap, rbt.Min, Cardinality(all))
        down == Backward(heap, rbt.Max, Cardinality(all))
    IN /\ \A n \in all :
            LET larger  == {m \in all : heap[m].Val > heap[n].Val}
                smaller == {m \in all : heap[m].Val < heap[n].Val}
                nx == RBNodeNext(heap, n)
                pv == RBNodePrev(heap, n)
            IN /\ nx.ok <=> n # rbt.Max
               /\ nx.ok <=> nx.node # Nil
               /\ nx.ok => /\ nx.node \in larger
                           /\ \A m \in larger : heap[nx.node].Val <= heap[m].Val
               /\ pv.ok <=> n # rbt.Min
               /\ pv.ok <=> pv.node # Nil
               /\ pv.ok => /\ pv.node \in smaller
                           /\ \A m \in smaller : heap[pv.node].Val >= heap[m].Val
       /\ Len(up) = rbt.Count
       /\ Range(up) = all
       /\ \A i \in 1..(Len(up) - 1) : heap[up[i]].Val < heap[up[i + 1]].Val
       /\ Len(down) = rbt.Count
       /\ Range(down) = all
       /\ \A i \in 1..(Len(down) - 1) : heap[down[i]].Val > heap[down[i + 1]].Val
       /\ down = Reversed(up)

\* A tree where Next climbs two levels from a right child of a right child
\* and Prev climbs from a left child.
C13_Witness ==
    /\ rbt.Count >= 5
    /\ \E n \in Nodes(heap, rbt.root) :
          /\ heap[n].right = Nil
          /\ RBNodeNext(heap, n).ok
          /\ ClimbRight(heap, n) \notin {n, heap[n].parent}
    /\ \E n \in Nodes(heap, rbt.root) :
          /\ heap[n].left = Nil
          /\ RBNodePrev(heap, n).ok
          /\ ClimbLeft(heap, n) # n

\* The nodes below a root through left and right, whatever the pointers
\* form, and whether they form a tree: nothing holds the root and every
\* other node is held exactly once.
RECURSIVE Descend(_, _)
Descend(h, S) ==
    LET T == (S \cup UNION {{h[n].left, h[n].right} : n \in S}) \ {Nil}
    IN IF T = S THEN S ELSE Descend(h, T)

Below(h, t) == Descend(h, {t.root} \ {Nil})

Holds(h, t, k) ==
    {<<n, f>> \in Below(h, t) \X {"left", "right"} : h[n][f] = k}

TreeShaped(h, t) ==
    \A k \in Below(h, t) :
        Cardinality(Holds(h, t, k)) = IF k = t.root THEN 0 ELSE 1

\* C14: for every tree, the hand-assembled ones included, IsValid() is true
\* only if the in-order traversal is strictly increasing under the
\* comparator.
C14_ValidIsOrdered == IsValid(heap, rbt) => InOrderIncreasing(heap, rbt)

\* The corruptions of C15.
NoComparator(t) == t.cmp = "nil"

EmptyButSet(t) == t.root = Nil /\ (t.Min # Nil \/ t.Max # Nil \/ t.Count # 0)

BadRoot(h, t) == t.root # Nil /\ (~h[t.root].isBlack \/ h[t.root].parent # Nil)

RedUnderRed(h, t) ==
    \E n \in Below(h, t) : \E k \in Children(h, n) : ~h[n].isBlack /\ ~h[k].isBlack

BadParent(h, t) ==
    \E n \in Below(h, t) : \E k \in Children(h, n) : h[k].parent # n

UnequalBlacks(h, t) ==
    TreeShaped(h, t) /\ Cardinality(PathBlacks(h, t.root, 0)) > 1

BadMinMax(h, t) ==
    /\ t.root # Nil
    /\ TreeShaped(h, t)
    /\ t.Min # leftmost(h, t.root) \/ t.Max # rightmost(h, t.root)

BadCount(h, t) == TreeShaped(h, t) /\ t.Count # Cardinality(Below(h, t))

Corrupt(h, t) ==
    \/ NoComparator(t)
    \/ EmptyButSet(t)
    \/ BadRoot(h, t)
    \/ RedUnderRed(h, t)
    \/ BadParent(h, t)
    \/ UnequalBlacks(h, t)
    \/ BadMinMax(h, t)
    \/ BadCount(h, t)

\* C15: for every tree, the hand-assembled ones included, IsValid() returns,
\* and returns false, whenever the comparator is unset, the tree is empty
\* but Min, Max or Count is set, the root is red or has a parent, a red node
\* has a red parent, two paths from the root to an absent child hold
\* different numbers of black nodes, a child's parent back-reference is not
\* the node holding it, Min or Max is not the leftmost or rightmost node, or
\* Count is not the number of nodes.
C15_RejectsCorrupt ==
    Corrupt(heap, rbt) => ~IsValid(heap, rbt) /\ ~IsValidPanics(heap, rbt)

\* A tree of the tests with a child whose back-reference was repointed and
\* nothing else wrong.
C15_Witness ==
    /\ op.name = "Assign"
    /\ BadParent(heap, rbt)
    /\ TreeShaped(heap, rbt)
    /\ ~BadCount(heap, rbt)
    /\ ~BadMinMax(heap, rbt)
    /\ ~RedUnderRed(heap, rbt)
    /\ ~BadRoot(heap, rbt)
    /\ rbt.Count = 7
    /\ ~IsValid(heap, rbt)

\* rbt.Delete(y) on the tree t of heap h, up to its return: the nodes are
\* still at the addresses the caller knows them by.
Deleting(h, t, y) == Delete(Frame(Collect(h, Live(h, t)), t), y)

Inserting(h, t, y) ==
    Insert(Frame(Collect(h, Live(h, t)), t), y, Allocate(h, Live(h, t)))

\* The trees that calls of Insert and Delete with the values of CloneVals
\* lead to from the trees of a frontier, and those already known.
RECURSIVE ReachedFrom(_, _)
ReachedFrom(known, frontier) ==
    LET settled(r) == Settle(r.s.h, TreeOf(r.s), NoTree)
        tree(m)    == [h |-> m.h, t |-> m.t]
        calls(x)   == {tree(settled(Inserting(x.h, x.t, y))) : y \in CloneVals}
                        \cup {tree(settled(Deleting(x.h, x.t, y))) : y \in CloneVals}
        grown(all) == ReachedFrom(all, UNION {calls(x) : x \in frontier} \ all)
    IN IF frontier = {} THEN known ELSE grown(known \cup frontier)

\* In the tree t, Delete(y) would change the value of the node X.
ValueChanges(h, t, X, y) ==
    /\ Deleting(h, t, y).ok
    /\ Deleting(h, t, y).s.h[X].Val # h[X].Val

C16_Step ==
    LET holds(y, r, m, old, kept) ==
            /\ m.h = heap'
            /\ m.t = rbt'
            /\ Cardinality(kept) = rbt.Count - 1
            /\ \A X \in old :
                 IF Cmp(rbt.cmp, y, heap[X].Val) # 0
                 THEN r.s.h[X].Val = heap[X].Val
                 ELSE IF Children(heap, X) = {}
                 THEN X \notin kept /\ r.s.h[X].Val = heap[X].Val
                 ELSE /\ X \in kept
                      /\ heap'[m.to[X]].Val # heap[X].Val
                      /\ heap'[m.to[X]].Val =
                           IF heap[X].right # Nil
                           THEN heap[RBNodeNext(heap, X).node].Val
                           ELSE heap[heap[X].left].Val
                      /\ heap[X].right # Nil => RBNodeNext(heap, X).node \notin kept
                      /\ heap[X].right = Nil => heap[X].left \notin kept
        among(y, r, m, old, new) == holds(y, r, m, old, {X \in old : m.to[X] \in new})
        settled(y, r, m) ==
            among(y, r, m, Nodes(heap, rbt.root), Nodes(heap', rbt'.root))
        deleted(y, r) == settled(y, r, Settle(r.s.h, TreeOf(r.s), NoTree))
    IN (op'.name = "Delete" /\ op'.ok) => deleted(op'.arg, Deleting(heap, rbt, op'.arg))

C17_Step ==
    (op'.name = "Delete" /\ Has(rbt.cmp, Values(heap, rbt), op'.arg)) =>
        /\ op'.ok
        /\ op'.val \in Values(heap, rbt)
        /\ Cmp(rbt.cmp, op'.val, op'.arg) = 0
        /\ op'.val = heap[Holder(heap, rbt, op'.arg)].Val
        /\ Values(heap', rbt') = Values(heap, rbt) \ {op'.val}

C17_DeleteReturnsStored == [][C17_Step]_vars

\* A Delete by key, with another payload than the stored one, of the item
\* of a node with two children.
C17_Witness ==
    /\ op.name = "Delete" /\ op.ok
    /\ "del_two" \in op.cases
    /\ ItemKey(op.val) = ItemKey(op.arg)
    /\ op.val # op.arg
    /\ rbt.Count >= 2

\* The number of nodes on the longest path from a node down to a leaf.
RECURSIVE Height(_, _)
Height(h, rbn) ==
    IF rbn = Nil THEN 0
    ELSE 1 + Max2(Height(h, h[rbn].left), Height(h, h[rbn].right))

RECURSIVE Pow2(_)
Pow2(n) == IF n = 0 THEN 1 ELSE 2 * Pow2(n - 1)

\* C18: after every Insert and every Delete from the empty tree on, the
\* height of the tree, the number of nodes on its longest path from the
\* root to a leaf, is at most 2*log2(Count+1): 2^height <= (Count+1)^2.
C18_Height ==
    Pow2(Height(heap, rbt.root)) <= (rbt.Count + 1) * (rbt.Count + 1)

\* A tree as high as six nodes can be, left by an Insert that had a double
\* red to repair.
C18_Witness ==
    /\ rbt.Count = 6
    /\ Height(heap, rbt.root) = 4
    /\ op.name = "Insert"
    /\ op.ok
    /\ op.dr >= 1

\* The number of nodes above a node.
RECURSIVE Depth(_, _)
Depth(h, rbn) == IF h[rbn].parent = Nil THEN 0 ELSE 1 + Depth(h, h[rbn].parent)

\* One line per node of q, in the order of q: depth + 1 spaces, the value,
\* a newline.
RECURSIVE Lines(_, _)
Lines(h, q) ==
    IF q = <<>> THEN ""
    ELSE Repeat(" ", Depth(h, Head(q)) + 1) \o Decimal(h[Head(q)].Val) \o "\n"
           \o Lines(h, Tail(q))

\* C19: String() of an empty tree is the empty text; of any other tree it
\* is one line per value, every value once, in strictly decreasing order
\* (right subtree, node, left subtree), each line depth + 1 spaces and the
\* value, the root at depth 0.  Inserting 70, 50, 80, 20, 60, 75, 100 in
\* that order into an empty ordered tree gives a valid tree with the lines
\* 100 (depth 2), 80 (1), 75 (2), 70 (0), 60 (2), 50 (1), 20 (2).
C19_String ==
    LET down == Reversed(InOrder(heap, rbt.root))
    IN /\ rbt.root = Nil => String(heap, rbt) = ""
       /\ String(heap, rbt) = Lines(heap, down)
       /\ Len(down) = rbt.Count
       /\ \A i \in 1..(Len(down) - 1) : heap[down[i]].Val > heap[down[i + 1]].Val
       /\ (caller = "scenario" /\ rbt.Count = Len(Scenario)) =>
             /\ IsValid(heap, rbt)
             /\ String(heap, rbt) = "   100\n  80\n   75\n 70\n   60\n  50\n   20\n"

\* The tree of the scenario, all seven values inserted.
C19_Witness ==
    /\ caller = "scenario"
    /\ rbt.Count = 7
    /\ op.name = "Insert"
    /\ op.arg = 100
    /\ String(heap, rbt) # ""

\* An only child is a red leaf under a black node.
RedLeafUnderBlack(h, n) ==
    Cardinality(Children(h, n)) = 1 =>
        /\ h[n].isBlack
        /\ \A k \in Children(h, n) : ~h[k].isBlack /\ Children(h, k) = {}

\* C20: in every tree Insert and Delete reach, a node with exactly one
\* child is black and its child is a red leaf.  So whenever Delete finds the
\* value in a node with exactly one child, copying the child's value up and
\* dropping the child removes exactly that value and needs no repair; and
\* when the successor that the two-children case removes has a right child,
\* that child is a red leaf, which takes the successor's place.
C20_Step ==
    LET X    == Holder(heap, rbt, op'.arg)
        succ == RBNodeNext(heap, X).node
        one  == Cardinality(Children(heap, X)) = 1
        two  == Cardinality(Children(heap, X)) = 2
        copied == op'.cases \cap {"del_one_left", "del_one_right"} # {}
        clean ==
            /\ op'.db = 0
            /\ op'.rot = 0
            /\ Values(heap', rbt') = Values(heap, rbt) \ {op'.val}
            /\ rbt'.Count = rbt.Count - 1
            /\ IsValid(heap', rbt')
    IN /\ \A n \in Nodes(heap', rbt'.root) : RedLeafUnderBlack(heap', n)
       /\ (op'.name = "Delete" /\ op'.ok) =>
            /\ copied <=> one
            /\ one => clean
            /\ "fdl_right_child" \in op'.cases <=> (two /\ heap[succ].right # Nil)
            /\ "fdl_right_child" \in op'.cases =>
                  /\ heap[succ].left = Nil
                  /\ RedLeafUnderBlack(heap, succ)
                  /\ clean

C20_OnlyChildIsRedLeaf == [][C20_Step]_vars

\* A Delete whose successor node had a right child.
C20_Witness ==
    /\ op.name = "Delete"
    /\ op.ok
    /\ "fdl_right_child" \in op.cases
    /\ op.db = 0

-----------------------------------------------------------------------------
(* The private calls of one Delete or Insert *)

\* Delete(val) on the tree t of heap h with the private calls it makes.
DeleteCalls(h, t, val) == Delete(Traced(Collect(h, Live(h, t)), t), val)

\* Insert(val) on the tree t of heap h with the private calls it makes.
InsertCalls(h, t, val) ==
    Insert(Traced(Collect(h, Live(h, t)), t), val, Allocate(h, Live(h, t)))

\* The positions in calls of the entries named fn.
Entries(calls, fn) == {i \in 1..Len(calls) : calls[i].fn = fn}

\* The solveDoubleBlack invocation that the entry at position i belongs to.
Invocation(calls, i) ==
    CHOOSE j \in Entries(calls, "solveDoubleBlack") :
        /\ j <= i
        /\ \A k \in Entries(calls, "solveDoubleBlack") : k <= i => k <= j

\* The invocation at position i of calls picked the sibling on the side
\* opposite the slot that rbn fills in h (or filled in before).
OppositeSide(calls, i, before) ==
    LET e        == calls[i]
        parent   == e.h[e.rbn].parent
        attached == e.rbn \in {e.h[parent].left, e.h[parent].right}
        first    == i = CHOOSE j \in Entries(calls, "solveDoubleBlack") :
                            \A k \in Entries(calls, "solveDoubleBlack") : j <= k
        wasLeft  == IF attached THEN e.h[parent].left = e.rbn
                    ELSE before[parent].left = e.rbn
    IN e.root # e.rbn =>
          /\ parent # Nil
          /\ first <=> ~attached
          /\ ~attached => e.rbn \in {before[parent].left, before[parent].right}
          /\ e.flag <=> wasLeft

\* The sibling read at position i of calls is a node, the child of parent
\* on the side the invocation picked.
SiblingRead(calls, i) ==
    LET e      == calls[i]
        inv    == calls[Invocation(calls, i)]
        parent == inv.h[inv.rbn].parent
    IN /\ e.rbn # Nil
       /\ e.flag = inv.flag
       /\ e.rbn = IF inv.flag THEN e.h[parent].right ELSE e.h[parent].left

C21_Step ==
    LET right(r, before) ==
            /\ ~r.s.panic
            /\ Cardinality(Entries(r.s.calls, "solveDoubleBlack")) = op'.db
            /\ \A i \in Entries(r.s.calls, "solveDoubleBlack") :
                   OppositeSide(r.s.calls, i, before)
            /\ \A i \in Entries(r.s.calls, "sibling") : SiblingRead(r.s.calls, i)
    IN (op'.name = "Delete" /\ ~panicked) =>
           right(DeleteCalls(heap, rbt, op'.arg), Collect(heap, Live(heap, rbt)))

\* C21: every solveDoubleBlack invocation of a Delete, the first on the
\* unlinked black leaf and the recursive ones on attached nodes, has
\* siblingIsRight true exactly when the deficient node is or was the left
\* child of parent, and every sibling whose colour or children are read,
\* also the one re-derived after a rotation, is a node on that side.
C21_SiblingOpposite == [][C21_Step]_vars

\* A Delete whose resolver ran on the unlinked leaf and again higher up,
\* where it met a red sibling and re-derived the sibling.
C21_Witness ==
    /\ op.name = "Delete"
    /\ op.ok
    /\ op.db >= 2
    /\ "db_red_sibling" \in op.cases

\* The red children of node n in heap h.
RedChildren(h, n) == {c \in {h[n].left, h[n].right} \ {Nil} : ~h[c].isBlack}

\* The entry at position i of calls is solveDoubleRed on a red node with
\* one red child under a black parent.
DoubleRed(calls, i) ==
    LET e == calls[i]
        g == e.h[e.rbn].parent
    IN /\ e.rbn # Nil
       /\ ~e.h[e.rbn].isBlack
       /\ Cardinality(RedChildren(e.h, e.rbn)) = 1
       /\ g # Nil
       /\ e.h[g].isBlack

C22_Step ==
    LET entered(r) ==
            /\ Cardinality(Entries(r.s.calls, "solveDoubleRed")) = op'.dr
            /\ \A i \in Entries(r.s.calls, "solveDoubleRed") : DoubleRed(r.s.calls, i)
    IN (op'.name = "Insert" /\ ~panicked) => entered(InsertCalls(heap, rbt, op'.arg))

\* C22: at every invocation of solveDoubleRed(n), from Insert and from its
\* own recursion, n is red, exactly one child of n is red, and the parent of
\* n exists and is black.
C22_DoubleRedAtEntry == [][C22_Step]_vars

\* An Insert whose resolver called itself.
C22_Witness ==
    /\ op.name = "Insert"
    /\ op.ok
    /\ op.dr >= 2
    /\ "dr_recurse" \in op.cases

\* The child of parent in heap h on the side the invocation picked.
SiblingOf(h, parent, siblingIsRight) == IF siblingIsRight THEN h[parent].right ELSE h[parent].left

\* If the invocation at position j of calls met a red sibling: parent red and
\* sibling black, parent rotated toward the deficient side, the sibling read
\* once more, no further invocation; with two black children under the new
\* sibling, it turns red, parent black, and nothing else is called.
RedSiblingCase(calls, j, final) ==
    LET e       == calls[j]
        parent  == e.h[e.rbn].parent
        sibling == SiblingOf(e.h, parent, e.flag)
        later   == {k \in Entries(calls, "solveDoubleBlack") : k > j}
        stops(s) ==
            (isBlack(s.h, s.h[s.rbn].left) /\ isBlack(s.h, s.h[s.rbn].right)) =>
                /\ Len(calls) = j + 3
                /\ final[parent].isBlack
                /\ ~final[s.rbn].isBlack
        rotated(r) ==
            /\ r.fn = (IF e.flag THEN "rotateLeft" ELSE "rotateRight")
            /\ r.rbn = parent
            /\ ~r.h[parent].isBlack
            /\ r.h[sibling].isBlack
        reread(s) ==
            /\ s.fn = "sibling"
            /\ s.rbn # Nil
            /\ s.rbn # sibling
            /\ s.rbn = SiblingOf(s.h, parent, e.flag)
            /\ s.h[s.rbn].isBlack
            /\ s.h[parent].parent = sibling
            /\ stops(s)
    IN (e.root # e.rbn /\ sibling # Nil /\ ~e.h[sibling].isBlack) =>
          /\ Len(calls) >= j + 3
          /\ rotated(calls[j + 1])
          /\ calls[j + 2].fn \in {"rotateLeft.return", "rotateRight.return"}
          /\ reread(calls[j + 3])
          /\ later = {}

C23_Step ==
    LET met(r) ==
            /\ ~r.s.panic
            /\ "db_red_sibling" \in op'.cases <=>
                  \E j \in Entries(r.s.calls, "solveDoubleBlack") :
                      LET e == r.s.calls[j]
                      IN /\ e.root # e.rbn
                         /\ ~isBlack(e.h, SiblingOf(e.h, e.h[e.rbn].parent, e.flag))
            /\ \A j \in Entries(r.s.calls, "solveDoubleBlack") :
                   RedSiblingCase(r.s.calls, j, r.s.h)
    IN (op'.name = "Delete" /\ ~panicked) => met(DeleteCalls(heap, rbt, op'.arg))

\* C23: when solveDoubleBlack meets a red sibling it recolours parent red and
\* sibling black, rotates parent toward the deficient side, re-derives the
\* sibling once and finishes in the black-sibling cases with no further
\* invocation of the resolver; with two black children under the new sibling
\* it recolours parent black and stops.
C23_RedSiblingNoRecursion == [][C23_Step]_vars

\* A Delete that met a red sibling and then a sibling with black children
\* under the red parent.
C23_Witness ==
    /\ op.name = "Delete"
    /\ op.ok
    /\ "db_red_sibling" \in op.cases
    /\ "db_red_parent" \in op.cases
    /\ op.rot = 1

\* The positions in calls where a rotation starts.
Rotations(calls) == Entries(calls, "rotateLeft") \cup Entries(calls, "rotateRight")

\* Both children of the parent of rbn are red: rbn has a red sibling.
RedUncle(h, rbn) ==
    /\ ~isBlack(h, h[h[rbn].parent].left)
    /\ ~isBlack(h, h[h[rbn].parent].right)

\* The solveDoubleRed invocation at position i of calls: if another follows,
\* the uncle was red, nothing was rotated and the next one is two levels
\* up; if it is the last, it rotates at most twice, and only under a black
\* uncle.
ClimbsByTwo(calls, i) ==
    LET e       == calls[i]
        later   == {k \in Entries(calls, "solveDoubleRed") : k > i}
        next    == CHOOSE k \in later : \A l \in later : k <= l
        turns   == {k \in Rotations(calls) : k > i}
        recurse == /\ RedUncle(e.h, e.rbn)
                   /\ {k \in Rotations(calls) : k < next} = {}
                   /\ calls[next].rbn = e.h[e.h[e.rbn].parent].parent
                   /\ Depth(calls[next].h, calls[next].rbn) = Depth(e.h, e.rbn) - 2
        last    == /\ Cardinality(turns) <= 2
                   /\ RedUncle(e.h, e.rbn) => turns = {}
                   /\ ~RedUncle(e.h, e.rbn) => turns # {}
    IN IF later # {} THEN recurse ELSE last

C24_Step ==
    LET bounded(r, before, after) ==
            /\ ~r.s.panic
            /\ Cardinality(Entries(r.s.calls, "solveDoubleRed")) = op'.dr
            /\ Cardinality(Rotations(r.s.calls)) = op'.rot
            /\ \A i \in Entries(r.s.calls, "solveDoubleRed") : ClimbsByTwo(r.s.calls, i)
            /\ op'.dr = 0 => op'.rot = 0
            /\ op'.rot <= 2
            /\ 2 * op'.dr <= before
            /\ 2 * op'.dr <= after
    IN (op'.name = "Insert" /\ ~panicked) =>
           bounded(InsertCalls(heap, rbt, op'.arg), Height(heap, rbt.root),
                   Height(heap', rbt'.root))

\* C24: within one Insert solveDoubleRed calls itself only under a red
\* uncle, each time on the node two levels closer to the root; under a black
\* uncle it ends the repair with one or two rotations; one Insert rotates at
\* most twice and invokes the resolver at most height/2 times, for the height
\* (in nodes) of the tree before and of the tree after.
C24_InsertBounded == [][C24_Step]_vars

\* An Insert whose resolver climbed two levels and ended with a rotation.
C24_Witness ==
    /\ op.name = "Insert"
    /\ op.ok
    /\ op.dr = 2
    /\ op.rot >= 1
    /\ {"dr_red_uncle", "dr_recurse"} \subseteq op.cases

\* The solveDoubleBlack invocation at position j of calls: on the root it
\* returns at once; if another follows, sibling was black with two black
\* children under a black parent, nothing was rotated and the next one is on
\* parent, one level up; if it is the last, it rotates at most three times.
ClimbsByOne(calls, j) ==
    LET e       == calls[j]
        parent  == e.h[e.rbn].parent
        sibling == SiblingOf(e.h, parent, e.flag)
        later   == {k \in Entries(calls, "solveDoubleBlack") : k > j}
        next    == CHOOSE k \in later : \A l \in later : k <= l
        turns   == {k \in Rotations(calls) : k > j}
        recurse == /\ sibling # Nil
                   /\ e.h[sibling].isBlack
                   /\ isBlack(e.h, e.h[sibling].left)
                   /\ isBlack(e.h, e.h[sibling].right)
                   /\ e.h[parent].isBlack
                   /\ Rotations(calls) \cap 1..next = {}
                   /\ calls[next].rbn = parent
                   /\ Depth(calls[next].h, parent) = Depth(e.h, e.rbn) - 1
                   /\ ~calls[next].h[sibling].isBlack
    IN IF e.root = e.rbn THEN j = Len(calls)
       ELSE IF later # {} THEN recurse
       ELSE Cardinality(turns) <= 3

C25_Step ==
    LET bounded(r, before, after) ==
            /\ ~r.s.panic
            /\ Cardinality(Entries(r.s.calls, "solveDoubleBlack")) = op'.db
            /\ Cardinality(Rotations(r.s.calls)) = op'.rot
            /\ \A j \in Entries(r.s.calls, "solveDoubleBlack") : ClimbsByOne(r.s.calls, j)
            /\ op'.db = 0 => op'.rot = 0
            /\ op'.rot <= 3
            /\ op'.db <= before
            /\ op'.db <= after
    IN (op'.name = "Delete" /\ ~panicked) =>
           bounded(DeleteCalls(heap, rbt, op'.arg), Height(heap, rbt.root),
                   Height(heap', rbt'.root))

\* C25: within one Delete solveDoubleBlack calls itself only under a black
\* sibling with two black children and a black parent, each time on parent,
\* one level closer to the root, and returns at once on the root; any other
\* case ends the repair; one Delete rotates at most three times and invokes
\* the resolver at most height times, for the height (in nodes) of the tree
\* before and of the tree after.
C25_DeleteBounded == [][C25_Step]_vars

\* A Delete whose resolver climbed up to the root and returned there.
C25_Witness ==
    /\ op.name = "Delete"
    /\ op.ok
    /\ op.db >= 3
    /\ "db_root" \in op.cases
    /\ op.rot = 0

\* The rotation entered at position k of calls returned at position k + 1.
\* x went down under its right child (rotateLeft) or its left child
\* (rotateRight): the in-order sequence of nodes, every value and every
\* colour are as before, all children point back at their parents, the
\* former parent of x holds the promoted node where x was, and the root
\* pointer follows if x was the root.
RotationFrame(calls, k) ==
    LET e        == calls[k]
        d        == calls[k + 1]
        x        == e.rbn
        left     == e.fn = "rotateLeft"
        promoted == IF left THEN e.h[x].right ELSE e.h[x].left
        inner    == IF left THEN e.h[promoted].left ELSE e.h[promoted].right
        above    == e.h[x].parent
        slots(n) == <<d.h[n].left, d.h[n].right>>
        was(n)   == <<e.h[n].left, e.h[n].right>>
    IN /\ k < Len(calls)
       /\ d.fn = e.fn \o ".return"
       /\ d.rbn = x
       /\ promoted # Nil
       /\ InOrder(d.h, d.root) = InOrder(e.h, e.root)
       /\ x \in Nodes(e.h, e.root)
       /\ \A n \in DOMAIN e.h : d.h[n].Val = e.h[n].Val /\ d.h[n].isBlack = e.h[n].isBlack
       /\ \A n \in Nodes(d.h, d.root) : \A c \in {d.h[n].left, d.h[n].right} \ {Nil} :
              d.h[c].parent = n
       /\ d.h[d.root].parent = Nil
       /\ slots(promoted) = (IF left THEN <<x, was(promoted)[2]>> ELSE <<was(promoted)[1], x>>)
       /\ slots(x) = (IF left THEN <<was(x)[1], inner>> ELSE <<inner, was(x)[2]>>)
       /\ d.h[promoted].parent = above
       /\ above # Nil =>
              slots(above) = (IF was(above)[1] = x THEN <<promoted, was(above)[2]>>
                              ELSE <<was(above)[1], promoted>>)
       /\ d.root = (IF e.root = x THEN promoted ELSE e.root)
       /\ (e.root = x) <=> (above = Nil)

\* A rotation of calls works next to the child slot that the Delete has just
\* emptied: on the parent of the unlinked leaf, or on its other child.
BesideEmptySlot(calls) ==
    \E k \in Rotations(calls) :
        LET u  == calls[1].rbn
            pu == calls[1].h[u].parent
            e  == calls[k]
        IN /\ calls[1].fn = "solveDoubleBlack"
           /\ u \notin {e.h[pu].left, e.h[pu].right}
           /\ Nil \in {e.h[pu].left, e.h[pu].right}
           /\ pu \in {e.rbn, e.h[e.rbn].parent}

C26_Step ==
    LET framed(r) ==
            /\ ~r.s.panic
            /\ Cardinality(Rotations(r.s.calls)) = op'.rot
            /\ \A k \in Rotations(r.s.calls) : RotationFrame(r.s.calls, k)
        emptied(r) ==
            (op'.db = 1 /\ op'.rot >= 1) => BesideEmptySlot(r.s.calls)
    IN /\ (op'.name = "Insert" /\ ~panicked) => framed(InsertCalls(heap, rbt, op'.arg))
       /\ (op'.name = "Delete" /\ ~panicked) => framed(DeleteCalls(heap, rbt, op'.arg))
       /\ (op'.name = "Delete" /\ ~panicked) => emptied(DeleteCalls(heap, rbt, op'.arg))

\* C26: every rotateLeft(x) and rotateRight(x) that Insert and Delete make is
\* on a node with the child to promote and leaves the in-order sequence,
\* every value and every colour unchanged; afterwards all children point
\* back at the node holding them, the former parent of x holds the promoted
\* node in the slot where x was, and the root pointer is the promoted node if
\* x was the root; also next to a child slot a deletion has just emptied.
C26_RotationFrame == [][C26_Step]_vars

\* A Delete that rotated three times at the parent of the unlinked leaf.
C26_Witness ==
    /\ op.name = "Delete"
    /\ op.ok
    /\ op.db = 1
    /\ op.rot = 3
    /\ {"db_red_sibling", "db_triangle", "db_line"} \subseteq op.cases

C27_Step ==
    LET swapped(r, m, d, succ, before, after) ==
            /\ ~r.s.panic
            /\ m.h = heap'
            /\ m.t = rbt'
            /\ "del_two" \in op'.cases
            /\ d \in after
            /\ m.to[d] \in Nodes(heap', rbt'.root)
            /\ r.s.h[d].Val = heap[succ].Val
            /\ heap'[m.to[d]].Val = heap[succ].Val
            /\ r.s.h[d].Val # heap[d].Val
            /\ after = before \ {succ}
            /\ m.to[succ] = Nil
            /\ \A n \in before \ {d} : r.s.h[n].Val = heap[n].Val
            /\ \A n \in after \ {d} : heap'[m.to[n]].Val = heap[n].Val
        settled(r, d, succ) ==
            swapped(r, Settle(r.s.h, TreeOf(r.s), NoTree), d, succ,
                    Nodes(heap, rbt.root), Nodes(r.s.h, r.s.root))
        found(d) ==
            (d # Nil /\ heap[d].left # Nil /\ heap[d].right # Nil) =>
                settled(Deleting(heap, rbt, op'.arg), d, leftmost(heap, heap[d].right))
    IN (op'.name = "Delete" /\ ~panicked) => found(Holder(heap, rbt, op'.arg))

\* C27: when Delete(v) finds v in a node d with two children, d is still in
\* the tree afterwards and holds the value of its former in-order successor,
\* the leftmost node of the right subtree of d; the node that left the tree
\* is the node of that successor; no node other than d has another value
\* than before.
C27_SuccessorMovesUp == [][C27_Step]_vars

\* A Delete of the value of a node with two children whose successor was a
\* black leaf, so that the tree was repaired, with a rotation, around d.
C27_Witness ==
    /\ op.name = "Delete"
    /\ op.ok
    /\ {"del_two", "fdl_leaf"} \subseteq op.cases
    /\ op.db >= 1
    /\ op.rot >= 1

====
